---- MODULE Spec2Model ----
(***************************************************************************)
(* A model of skx/simple-vpn: the relay's address pool (cmd_server.go) and *)
(* the per-connection Socket of package shared (socketHandler.go).         *)
(*                                                                         *)
(* Addresses are modelled by their host part inside the configured subnet  *)
(* (10.0.0.2 is 2), MAC addresses by their first octet (unicast iff even). *)
(***************************************************************************)
EXTENDS Integers, Sequences, FiniteSets, TLC

\* ------------------------------------------------------------ bounds ----

\* Number of connections (Socket objects) the relay accepts in one run.
NSock == 3

\* Longest history of pool operations kept by the pool specification.
MaxOps == 6

\* Number of events of the environment in one run: a connection that
\* arrives, a binary frame a transport-read pump receives, a spontaneous I/O
\* failure.
MaxEvents == 4

\* Number of spontaneous I/O failures in one run (a peer that goes away, a
\* failing tunnel read, a failing write on an open transport, a ping timeout).
MaxFaults == 1
MaxTime == 8
MaxMacFrames == 3

\* ------------------------------------------------- program constants ----

\* The host part of the address a fixed mapping gives "alice" (10.0.0.2).
AliceIP == 2

\* pickIP's error value ("" with err "Out of IP addresses").
OutOfIP == -1

\* Config.Get of a key that is not set ("").
NoFixed == -2

\* defaultMac, ff:ff:ff:ff:ff:ff, by its first octet.
defaultMac == 255
ClientSideIP == 0
timeout == 4

\* The minimum length of a frame that is routed (an Ethernet header).
MinFrameLen == 14

\* ---------------------------------------------------------- the pool ----

VARIABLES
  subnet,     \* the addresses of the configured subnet (-subnet)
  assigned,   \* serverCmd.assigned: address -> connection record or Nil
  hist,       \* history of the pool operations (pool specification only)
  sock,       \* the Socket objects, by connection
  task,       \* the goroutines of each connection: position and locals
  macTable,   \* macTable: MAC address -> Socket (NoSock: no entry)
  allSockets, \* allSockets
  log,        \* what each transport-read pump did with the frame in hand
  frames,     \* number of frames received so far
  faults,     \* number of spontaneous I/O failures so far
  key,        \* the key each connection presented ("" before it arrives)
  wire,       \* the frames written to each transport, in the order written
  timer,      \* the time, the last pong and the keepalive's timer
  presented,  \* for each address, the Socket that last learned from a
              \* frame with that source
  lastCommandId, \* lastCommandId, the counter of the commandIDs
  held        \* for each mutex outside the Sockets, the goroutines that hold
              \* it and how (read or write)

\* The subnets of the runs: 10.0.0.0/30 and 10.0.0.0/29, by host part.
Subnet30 == 0 .. 3
Subnet29 == 0 .. 7
Subnets == {Subnet30, Subnet29}

\* The addresses subnet.Contains accepts, in the order incIP visits them.
SubnetAddrs == subnet

\* strings.HasSuffix(s, ".0"): the last octet of the address is 0.
HasSuffixDotZero(a) == a % 256 = 0

\* A nil *connection.
Nil == [localIP |-> -1, remoteIP |-> -1, name |-> ""]

\* &connection{name: name, localIP: ip, remoteIP: remote}
connection(name, ip, remote) == [localIP |-> ip, remoteIP |-> remote, name |-> name]

\* Client names used by the joining connections.
Names == {"alice", "bob", "carol", "dave"}

\* p.Config.Get("host_" + name): the fixed address configured for name.
ConfigGet(name) == IF name = "alice" THEN AliceIP ELSE NoFixed

\* Every key p.assigned can hold.
PoolKeys == Subnet29 \cup ({ConfigGet(n) : n \in Names} \ {NoFixed})

\* The first address of the range that is not skipped: the server's own.
serverIP == CHOOSE a \in SubnetAddrs :
              /\ ~HasSuffixDotZero(a)
              /\ \A b \in SubnetAddrs : ~HasSuffixDotZero(b) => a <= b

\* A pool initialisation that binds no address to the server.
InitAssignedNoServer == [a \in PoolKeys |-> Nil]

\* serverCmd.Execute: every address of the range is marked free, except the
\* first one, which is bound to the server itself.
InitAssigned ==
  [a \in PoolKeys |->
     IF a = serverIP THEN connection("vpn-server", a, a) ELSE Nil]

\* The scan of pickIP: the first address of the range, in address order,
\* that is not skipped and is unassigned; OutOfIP if there is none.
ScanFree(asg) ==
  LET free == {a \in SubnetAddrs : ~HasSuffixDotZero(a) /\ asg[a] = Nil}
  IN IF free = {} THEN OutOfIP
     ELSE CHOOSE a \in free : \A b \in free : a <= b

\* A pickIP that hands out the fixed address of a name without looking
\* whether it is assigned.
pickIPAddrNoFreeCheck(asg, name) ==
  IF ConfigGet(name) # NoFixed THEN ConfigGet(name) ELSE ScanFree(asg)

\* A pickIP that hands out the first address of the range again when none
\* is unassigned.
pickIPAddrReuse(asg, name) ==
  LET ip == IF ConfigGet(name) # NoFixed /\ asg[ConfigGet(name)] = Nil
            THEN ConfigGet(name) ELSE ScanFree(asg)
  IN IF ip = OutOfIP THEN serverIP ELSE ip

\* The address pickIP(name, remote) returns in pool asg (OutOfIP on error).
pickIPAddr(asg, name) ==
  LET fixed == ConfigGet(name)
  IN IF fixed # NoFixed /\ asg[fixed] = Nil THEN fixed ELSE ScanFree(asg)

\* The pool after pickIP(name, remote).
pickIP(asg, name, remote) ==
  LET ip == pickIPAddr(asg, name)
  IN IF ip = OutOfIP THEN asg
     ELSE [asg EXCEPT ![ip] = connection(name, ip, remote)]

\* A release that toggles: it binds an address that is unassigned.
releaseToggle(asg, x) ==
  IF asg[x] # Nil THEN [asg EXCEPT ![x] = Nil]
  ELSE [asg EXCEPT ![x] = connection("", x, x)]

\* A release that leaves the record as it is.
releaseNothing(asg, x) == asg

\* The pool part of the reaper closure of serveWs: "Only reap if we've not
\* already done so."
release(asg, x) ==
  IF asg[x] # Nil THEN [asg EXCEPT ![x] = Nil] ELSE asg

\* ------------------------------------------------------- the sockets ----
\*
\* Grain of the model. A critical section under a mutex is one step. So is
\* Socket.Close as a whole: it runs under s.writeLock, and its read of s.mac
\* before macLock commutes with the locked part of a concurrent setMACFrom.
\* A step of a goroutine that touches nothing shared (a return, the deferred
\* call) is part of the step before or after it. What stays apart is what
\* other goroutines can tell apart: a message in hand before it is learned
\* from, the lookup after the learning, every write of a fan-out, wg.Done
\* before the Close of closeDone, and closeDone's unlocked test of s.reaped
\* before the reaper and the assignment after it.

\* The connections the relay accepts; each becomes at most one Socket.
Socks == 1 .. NSock

\* A nil *Socket.
NoSock == 0

\* The goroutines of a connection: the HTTP handler (serveWs), the
\* transport-read pump and the keepalive of Serve, and the tunnel-read pump
\* of tryServeIfaceRead.
\* "tun2" is a second tunnel-read pump, should tryServeIfaceRead start one
\* while the first has been started.
Kinds == {"main", "ws", "tun", "ka", "tun2"}
Pumps == {"ws", "tun", "ka"}

\* The name each connection presents (?name=...).
ClientName(s) ==
  IF s = 1 THEN "alice" ELSE IF s = 2 THEN "bob"
  ELSE IF s = 3 THEN "carol" ELSE "dave"

\* MacAddr values, by their first octet: two unicast stations and the
\* broadcast address.
Macs == {2, 4, defaultMac}

\* MACIsUnicast: (mac[0] & 1) == 0.
MACIsUnicast(mac) == mac % 2 = 0

\* A binary message: the bytes GetDestMAC and GetSrcMAC read, and its length.
Frames ==
  [src : {2, 4, defaultMac}, dst : {2, 4, defaultMac}, len : {MinFrameLen}]
    \cup {[src |-> 2, dst |-> 4, len |-> MinFrameLen - 1]}

GetSrcMAC(msg) == msg.src
GetDestMAC(msg) == msg.dst

\* A lookup that never finds a Socket.
FindNone(mac) == NoSock

\* A lookup that finds the first connection whatever the address.
FindFirst(mac) == CHOOSE s \in Socks : \A u \in Socks : s <= u

\* FindSocketByMAC: the entry of mac in macTable, nil if there is none.
FindSocketByMAC(mac) == macTable[mac]

\* No frame in hand. For a frame in hand: its bytes, its number in the
\* order of receipt (id), the Socket the lookup found (sd), whether
\* BroadcastMessage ran and its targetList (snap), how often WriteMessage
\* was called on each Socket (wrote) and whether s.iface.Write was called
\* (local).
\* For a text message in hand: its commandID (cid) and command name (cmd),
\* what the handler returned (err), the list refreshPeers built (peers) and
\* the replies written for it (reply). For a frame setMACFrom has seen:
\* s.mac as it was before (was). For a command a goroutine of s sends: its
\* name (command), the Socket whose SendCommand runs (to, NoSock outside
\* SendCommand) and the commandID SendCommand obtained (commandId).
NoLog == [src |-> 0, dst |-> 0, len |-> 0, id |-> 0, sd |-> NoSock,
          bcast |-> FALSE, snap |-> {}, wrote |-> [d \in Socks |-> 0],
          local |-> FALSE, cid |-> 0, cmd |-> "", err |-> "nil",
          peers |-> {}, reply |-> <<>>, was |-> defaultMac,
          command |-> "", to |-> NoSock, commandId |-> 0]

\* A goroutine: where it is, and the Sockets it has still to write to.
OffTask == [pc |-> "off", tgt |-> {}]
At(pc, tgt) == [pc |-> pc, tgt |-> tgt]

\* The fields of a connection before MakeSocket.
NoSocket ==
  [clientIP |-> OutOfIP, conn |-> "none", iface |-> "nil", wg |-> 0,
   closechanopen |-> FALSE, mac |-> defaultMac, reaper |-> FALSE,
   reaped |-> FALSE, closes |-> 0, reaps |-> 0, handlers |-> {},
   writeLock |-> <<>>]

\* MakeSocket(clientIP, conn, iface, fn). closes counts the close(closechan)
\* calls and reaps the calls of the reaper; writeLock is the goroutine that
\* holds the mutex, <<>> when it is free. It is free between the steps of
\* Spec, SpecClient and SpecPool, whose steps are whole critical sections.
MakeSocket(clientIP, iface, fn) ==
  [clientIP |-> clientIP, conn |-> "open", iface |-> iface, wg |-> 0,
   closechanopen |-> TRUE, mac |-> defaultMac, reaper |-> fn,
   reaped |-> FALSE, closes |-> 0, reaps |-> 0, handlers |-> {},
   writeLock |-> <<>>]

\* so.AddCommandHandler(name, ...): the registry of so has a handler for name.
AddCommandHandler(so, name) == [so EXCEPT !.handlers = @ \cup {name}]

vars ==
  <<subnet, assigned, hist, sock, task, macTable, allSockets, log, frames,
    faults, key, wire, timer, presented, lastCommandId, held>>

sockVars ==
  <<sock, task, macTable, allSockets, log, frames, faults, key, wire, timer,
    presented, lastCommandId, held>>

\* The mutexes that are not fields of a Socket: macLock and allSocketsLock
\* of package shared (sync.RWMutex) and assignedMutex of the relay.
Mutexes == {"macLock", "allSocketsLock", "assignedMutex"}

\* No goroutine holds any of them. They are free between the steps of every
\* specification whose steps are whole critical sections.
NoneHeld == [l \in Mutexes |-> {}]

\* The time of Spec, SpecClient, SpecLock and SpecPool, which have none: the
\* keepalive's tick is a step that may happen at any moment.
NoTimer == [now |-> 0, lastResponse |-> 0, armed |-> 0]

\* The connections that have arrived.
Arrived == {s \in Socks : task[s]["main"].pc # "idle"}

\* The events of the environment so far.
Events == Cardinality(Arrived) + frames + faults

\* The keys a connection may present (?key=...), and the configured one.
Keys == {"secret", "guess"}
ConfigKey == "secret"

\* A key check that lets every key pass.
KeyAny(k) == TRUE

\* serveWs: p.Config.Get("key") != key fails, the key is the configured one.
KeyOK(k) == ConfigKey = k

\* Connection s arrives: connections are numbered in the order in which
\* serveWs takes them up.
Arrives(s) ==
  /\ task[s]["main"].pc = "idle"
  /\ \A u \in Socks : u < s => u \in Arrived
  /\ Events < MaxEvents

\* Connection s arrives with a key that passes the check of serveWs, and
\* the upgrade to a websocket succeeds.
Accepted(s) ==
  /\ Arrives(s)
  /\ \E k \in Keys : KeyOK(k) /\ key' = [key EXCEPT ![s] = k]

Init ==
  /\ subnet \in Subnets
  /\ assigned = InitAssigned
  /\ hist = <<>>
  /\ sock = [s \in Socks |-> NoSocket]
  /\ task = [s \in Socks |->
               [k \in Kinds |-> IF k = "main" THEN At("idle", {}) ELSE OffTask]]
  /\ macTable = [m \in Macs |-> NoSock]
  /\ allSockets = {}
  /\ log = [s \in Socks |-> NoLog]
  /\ frames = 0
  /\ faults = 0
  /\ key = [s \in Socks |-> ""]
  /\ wire = [s \in Socks |-> <<>>]
  /\ timer = NoTimer
  /\ presented = [m \in Macs |-> NoSock]
  /\ lastCommandId = 0
  /\ held = NoneHeld

\* The shared state Close works on.
Shared == [sock |-> sock, macTable |-> macTable, allSockets |-> allSockets]

\* A Close that closes closechan without testing closechanopen.
CloseInAgain(st, d) ==
  LET s == st.sock[d] IN
  [sock |-> [st.sock EXCEPT ![d] =
       [s EXCEPT !.conn = "closed",
                 !.iface = IF s.iface # "nil" THEN "closed" ELSE "nil",
                 !.closechanopen = FALSE,
                 !.closes = @ + 1,
                 !.mac = defaultMac]],
   macTable |-> IF s.mac # defaultMac
                THEN [st.macTable EXCEPT ![s.mac] = NoSock]
                ELSE st.macTable,
   allSockets |-> st.allSockets \ {d}]

\* A Close that only leaves allSockets: transport, interface and closechan
\* stay as they are.
CloseInSetOnly(st, d) == [st EXCEPT !.allSockets = @ \ {d}]

\* Socket.Close on Socket d in state st: close the transport and the
\* interface, close closechan if it is open, drop the table entry of the
\* learned address and reset it, and leave allSockets.
CloseIn(st, d) ==
  LET s == st.sock[d] IN
  [sock |-> [st.sock EXCEPT ![d] =
       [s EXCEPT !.conn = "closed",
                 !.iface = IF s.iface # "nil" THEN "closed" ELSE "nil",
                 !.closechanopen = FALSE,
                 !.closes = IF s.closechanopen THEN @ + 1 ELSE @,
                 !.mac = defaultMac]],
   macTable |-> IF s.mac # defaultMac
                THEN [st.macTable EXCEPT ![s.mac] = NoSock]
                ELSE st.macTable,
   allSockets |-> st.allSockets \ {d}]

\* A Close that closes the transport, the interface and closechan and
\* leaves allSockets and the switching table as they are.
CloseTransport(d) ==
  [Shared EXCEPT !.sock = CloseIn(Shared, d).sock]

\* d.Close() in the current state.
Close(d) == CloseIn(Shared, d)

\* A spontaneous failure is within the budget of the run.
Fault == faults < MaxFaults /\ Events < MaxEvents /\ faults' = faults + 1
NoFault == faults' = faults

\* tryServeIfaceRead: nothing if s.iface is nil, else wg.Add(1) and the
\* tunnel-read pump starts. The pump has a packet to write at some time only
\* if the interface is open when it starts.
tryServeIfaceRead(s) ==
  IF sock[s].iface = "nil"
  THEN [add |-> 0, slot |-> "tun", tun |-> task[s]["tun"]]
  ELSE [add |-> 1,
        slot |-> IF task[s]["tun"].pc = "off" THEN "tun" ELSE "tun2",
        tun |-> At("tun", IF sock[s].iface = "open" THEN {s} ELSE {})]

\* ------------------------------------------------------------ serveWs ----

\* serveWs: the key does not match; the request is answered with 403 and
\* no websocket is made of it.
Reject(s) ==
  /\ Arrives(s)
  /\ \E k \in Keys : ~KeyOK(k) /\ key' = [key EXCEPT ![s] = k]
  /\ sock' = [sock EXCEPT ![s].conn = "refused"]
  /\ task' = [task EXCEPT ![s]["main"].pc = "done"]
  /\ UNCHANGED <<subnet, held, lastCommandId, presented, wire, timer, assigned, hist, macTable, allSockets, log, frames, faults>>

\* serveWs: pickIP finds no address; the connection is closed.
JoinNoIP(s) ==
  /\ Accepted(s)
  /\ pickIPAddr(assigned, ClientName(s)) = OutOfIP
  /\ assigned' = pickIP(assigned, ClientName(s), s)
  /\ sock' = [sock EXCEPT ![s].conn = "closed"]
  /\ task' = [task EXCEPT ![s]["main"].pc = "done"]
  /\ UNCHANGED <<subnet, held, lastCommandId, presented, wire, timer, hist, macTable, allSockets, log, frames, faults>>

\* serveWs: pickIP binds an address, but water.New fails: the connection is
\* closed and the handler returns.
JoinNoTun(s) ==
  /\ Accepted(s) /\ Events + 1 < MaxEvents
  /\ pickIPAddr(assigned, ClientName(s)) # OutOfIP
  /\ Fault
  /\ assigned' = pickIP(assigned, ClientName(s), s)
  /\ sock' = [sock EXCEPT ![s].conn = "closed"]
  /\ task' = [task EXCEPT ![s]["main"].pc = "done"]
  /\ UNCHANGED <<subnet, held, lastCommandId, presented, wire, timer, hist, macTable, allSockets, log, frames>>

\* The Socket serveWs builds for connection s: MakeSocket with the address
\* pickIP returned, the new TUN device and the reaper, and the handler of
\* "refresh-peers".
NewSocket(s) ==
  [sock EXCEPT ![s] =
     AddCommandHandler(
       MakeSocket(pickIPAddr(assigned, ClientName(s)), "open", TRUE),
       "refresh-peers")]

\* serveWs: pickIP binds an address, the TUN device is created, MakeSocket
\* builds the Socket and SendCommand("init", ...) is written. No other
\* goroutine can reach the Socket before Serve, so this is one step.
Join(s) ==
  /\ Accepted(s)
  /\ pickIPAddr(assigned, ClientName(s)) # OutOfIP
  /\ assigned' = pickIP(assigned, ClientName(s), s)
  /\ sock' = NewSocket(s)
  /\ task' = [task EXCEPT ![s]["main"].pc = "serve"]
  /\ UNCHANGED <<subnet, held, lastCommandId, presented, wire, timer, hist, macTable, allSockets, log, frames, faults>>

\* As Join, but the write of "init" fails: WriteMessage calls s.Close(), and
\* serveWs goes on to Serve all the same.
JoinInitErr(s) ==
  LET st == CloseIn([Shared EXCEPT !.sock = NewSocket(s)], s) IN
  /\ Accepted(s) /\ Events + 1 < MaxEvents
  /\ pickIPAddr(assigned, ClientName(s)) # OutOfIP
  /\ Fault
  /\ assigned' = pickIP(assigned, ClientName(s), s)
  /\ sock' = st.sock /\ macTable' = st.macTable /\ allSockets' = st.allSockets
  /\ task' = [task EXCEPT ![s]["main"].pc = "serve"]
  /\ UNCHANGED <<subnet, held, lastCommandId, presented, wire, timer, hist, log, frames>>

\* Socket.Serve, under s.writeLock: start the tunnel-read pump if there is an
\* interface, register in allSockets, start the transport-read pump and the
\* keepalive.
Serve(s) ==
  LET tsir == tryServeIfaceRead(s) IN
  /\ task[s]["main"].pc = "serve"
  /\ sock' = [sock EXCEPT ![s].wg = @ + tsir.add + 2]
  /\ allSockets' = allSockets \cup {s}
  /\ task' = [task EXCEPT
       ![s]["main"].pc = "wait",
       ![s][tsir.slot] = tsir.tun,
       ![s]["ws"] = At("read", {}),
       ![s]["ka"] = At("select", {s})]
  /\ UNCHANGED <<subnet, held, lastCommandId, presented, wire, timer, key, assigned, hist, macTable, log, frames, faults>>

\* Socket.Wait returns: the WaitGroup counter is zero.
Wait(s) ==
  /\ task[s]["main"].pc = "wait"
  /\ sock[s].wg = 0
  /\ task' = [task EXCEPT ![s]["main"].pc = "done"]
  /\ UNCHANGED <<subnet, held, lastCommandId, presented, wire, timer, key, assigned, hist, sock, macTable, allSockets, log, frames, faults>>

\* ------------------------------------------------------- WriteMessage ----

\* The places a goroutine calls WriteMessage from: the unicast forward,
\* BroadcastMessage, the tunnel-read pump's loop, the keepalive's loop and
\* the BroadcastCommand of refreshPeers.
WriteSites ==
  {"fwd", "bcast", "tun", "select", "peers", "hpeers", "refresh", "reply"}

\* The places where a write that succeeds is a step: a packet of the tunnel
\* or a ping that is written leaves every variable as it was.
WriteOKSites == {"fwd", "bcast", "peers", "hpeers", "refresh", "reply"}

\* Where a goroutine goes once WriteMessage returned at pc, with the targets
\* rest still to write to: the forwarders ignore the error, a tunnel-read
\* pump or keepalive whose write failed returns and runs closeDone.
AfterWrite(pc, rest) ==
  CASE pc = "fwd" -> "handled"
    [] pc = "bcast" -> IF rest = {} THEN "handled" ELSE "bcast"
    [] pc = "peers" -> IF rest = {} THEN "set" ELSE "peers"
    [] pc = "hpeers" -> IF rest = {} THEN "reply" ELSE "hpeers"
    [] pc = "refresh" -> "reply"
    [] pc = "reply" -> "handled"
    [] pc = "tun" -> "close"
    [] pc = "select" -> "close"

\* The targets of the goroutine of s after its write at pc, with rest still
\* to write to: a handler that returned is followed by the reply, which the
\* pump writes to its own transport.
AfterTgt(s, pc, rest) ==
  IF AfterWrite(pc, rest) = "reply" THEN {s} ELSE rest

\* A reply that says "true" whatever the handler returned.
ReplyTrue(cid, err) == [cid |-> cid, name |-> "reply", arg |-> "true"]

\* The message rawSendCommand(commandId, "reply", fmt.Sprintf("%v", err ==
\* nil)) writes.
Reply(cid, err) ==
  [cid |-> cid, name |-> "reply",
   arg |-> IF err = "nil" THEN "true" ELSE "false"]

\* The log of the pump of s once goroutine k of s called d.WriteMessage at
\* pc with rest still to write to: the write is counted, and after the last
\* write of BroadcastMessage the frame goes to s.iface unless that is nil.
\* A reply is kept as it was written.
Wrote(s, k, d, rest) ==
  IF k = "ws" /\ task[s][k].pc \in {"fwd", "bcast"}
  THEN [log EXCEPT ![s].wrote[d] = @ + 1,
                   ![s].local = (task[s][k].pc = "bcast" /\ rest = {}
                                 /\ sock[s].iface # "nil")]
  ELSE IF k = "ws" /\ task[s][k].pc = "hpeers"
  THEN [log EXCEPT ![s].wrote[d] = @ + 1]
  ELSE IF k = "ws" /\ task[s][k].pc = "reply"
  THEN [log EXCEPT ![s].reply = Append(@, Reply(log[s].cid, log[s].err))]
  ELSE log

\* A transport that sends a message ahead of those written before it.
TransmitAhead(w, m) == <<m>> \o w

\* conn.WriteMessage returns nil: the message follows, on the transport,
\* those written before it.
Transmit(w, m) == Append(w, m)

\* The transports once goroutine k of s wrote to the one of d: a frame the
\* pump of s forwards is on it, marked with its sender and its number.
Sent(s, k, d) ==
  IF k = "ws" /\ task[s][k].pc \in {"fwd", "bcast"}
  THEN [wire EXCEPT ![d] = Transmit(@, [from |-> s, id |-> log[s].id])]
  ELSE wire

\* d.WriteMessage(...) by goroutine k of s returns nil.
WriteOK(s, k, d) ==
  LET t == task[s][k] IN
  /\ t.pc \in WriteOKSites /\ d \in t.tgt
  /\ sock[d].conn = "open"
  /\ task' = [task EXCEPT ![s][k] = At(AfterWrite(t.pc, t.tgt \ {d}),
                                          AfterTgt(s, t.pc, t.tgt \ {d}))]
  /\ log' = Wrote(s, k, d, t.tgt \ {d})
  /\ wire' = Sent(s, k, d)
  /\ UNCHANGED <<subnet, held, lastCommandId, presented, timer, key, assigned, hist, sock, macTable, allSockets, frames, faults>>

\* A WriteMessage that returns the error and does not close.
ErrorIgnored(d) == Shared

\* WriteMessage after conn.WriteMessage returned an error: s.Close().
ErrorCloses(d) == Close(d)

\* d.WriteMessage(...) by goroutine k of s fails (the transport is closed, or
\* the write fails on an open one) and calls d.Close(). A tunnel-read pump or
\* keepalive then returns, and its deferred closeDone starts with wg.Done.
WriteErr(s, k, d) ==
  LET t == task[s][k]
      st == ErrorCloses(d)
  IN
  /\ t.pc \in WriteSites /\ d \in t.tgt
  /\ IF sock[d].conn = "open" THEN Fault ELSE NoFault
  /\ sock' = IF t.pc \in {"tun", "select"}
             THEN [st.sock EXCEPT ![s].wg = @ - 1] ELSE st.sock
  /\ macTable' = st.macTable
  /\ allSockets' = st.allSockets
  /\ task' = [task EXCEPT ![s][k] = At(AfterWrite(t.pc, t.tgt \ {d}),
                                          AfterTgt(s, t.pc, t.tgt \ {d}))]
  /\ log' = Wrote(s, k, d, t.tgt \ {d})
  /\ UNCHANGED <<subnet, held, lastCommandId, presented, wire, timer, key, assigned, hist, frames>>

\* ----------------------------------------------- transport-read pump ----

\* s.conn.ReadMessage() returns an error: the transport is closed, or the
\* peer went away. The pump returns; its deferred closeDone starts with
\* wg.Done.
ReadMessageErr(s) ==
  /\ task[s]["ws"].pc = "read"
  /\ sock' = [sock EXCEPT ![s].wg = @ - 1]
  /\ task' = [task EXCEPT ![s]["ws"].pc = "close"]
  /\ UNCHANGED <<subnet, held, lastCommandId, presented, wire, timer, key, assigned, hist, macTable, allSockets, log, frames>>

\* ReadMessageErr within the budget of the run.
WsReadErr(s) ==
  /\ IF sock[s].conn = "open" THEN Fault ELSE NoFault
  /\ ReadMessageErr(s)

\* A pump that routes a frame whatever its length.
RoutedAlways(msg) == TRUE

\* len(msg) >= 14: the frame has the two addresses and is routed.
Routed(msg) == msg.len >= MinFrameLen

\* s.conn.ReadMessage() returns a binary message. One shorter than 14 bytes
\* skips the routing and goes to s.iface unless that is nil.
ReadMessage(s, msg) ==
  /\ task[s]["ws"].pc = "read"
  /\ sock[s].conn = "open"
  /\ frames' = frames + 1
  /\ log' = [log EXCEPT ![s] =
       [NoLog EXCEPT !.src = msg.src, !.dst = msg.dst, !.len = msg.len,
                     !.id = frames + 1,
                     !.local = (~Routed(msg) /\ sock[s].iface # "nil")]]
  /\ task' = [task EXCEPT ![s]["ws"].pc =
                IF Routed(msg) THEN "learn" ELSE "handled"]
  /\ UNCHANGED <<subnet, held, lastCommandId, presented, wire, timer, key, assigned, hist, sock, macTable, allSockets, faults>>

\* ReadMessage within the budget of the run.
WsRead(s, msg) ==
  /\ Events < MaxEvents
  /\ ReadMessage(s, msg)

\* A setMACFrom that learns from every frame.
LearnsAlways(s, srcMac) == TRUE

\* Whether setMACFrom goes on to learn srcMac for Socket s.
Learns(s, srcMac) == MACIsUnicast(srcMac) /\ srcMac # sock[s].mac

\* A setMACFrom that inserts the new entry and leaves the old one.
setMACFromKeep(s, srcMac) == [macTable EXCEPT ![srcMac] = s]

\* The table after setMACFrom's locked part for Socket s and source srcMac:
\* the entry of the old address is dropped, the entry of the new inserted.
setMACFrom(s, srcMac) ==
  LET dropped == IF sock[s].mac # defaultMac
                 THEN [macTable EXCEPT ![sock[s].mac] = NoSock]
                 ELSE macTable
  IN [dropped EXCEPT ![srcMac] = s]

\* s.setMACFrom(msg).
WsLearn(s) ==
  LET srcMac == GetSrcMAC(log[s]) IN
  /\ task[s]["ws"].pc = "learn"
  /\ macTable' = IF Learns(s, srcMac) THEN setMACFrom(s, srcMac) ELSE macTable
  /\ sock' = IF Learns(s, srcMac) THEN [sock EXCEPT ![s].mac = srcMac] ELSE sock
  /\ task' = [task EXCEPT ![s]["ws"].pc = "route"]
  /\ presented' = [presented EXCEPT ![srcMac] = s]
  /\ log' = [log EXCEPT ![s].was = sock[s].mac]
  /\ UNCHANGED <<subnet, held, lastCommandId, wire, timer, key, assigned, hist, allSockets, frames, faults>>

\* A unicast destination: FindSocketByMAC; the frame is forwarded to the
\* Socket found, or goes to s.iface (unless that is nil) when none is found.
WsRouteUnicast(s) ==
  LET sd == FindSocketByMAC(GetDestMAC(log[s])) IN
  /\ task[s]["ws"].pc = "route"
  /\ MACIsUnicast(GetDestMAC(log[s]))
  /\ log' = [log EXCEPT ![s].sd = sd,
                        ![s].local = (sd = NoSock /\ sock[s].iface # "nil")]
  /\ task' = [task EXCEPT ![s]["ws"] =
       IF sd # NoSock THEN At("fwd", {sd}) ELSE At("handled", {})]
  /\ UNCHANGED <<subnet, held, lastCommandId, presented, wire, timer, key, assigned, hist, sock, macTable, allSockets, frames, faults>>

\* A targetList that does not leave out the sender.
BroadcastAll(skip) == allSockets

\* The targetList BroadcastMessage builds under allSocketsLock.
BroadcastTargets(skip) == allSockets \ {skip}

\* A multicast or broadcast destination: BroadcastMessage(msg, s) builds its
\* targetList; the writes follow one by one, and s.iface.Write after them.
WsRouteBroadcast(s) ==
  LET targetList == BroadcastTargets(s) IN
  /\ task[s]["ws"].pc = "route"
  /\ ~MACIsUnicast(GetDestMAC(log[s]))
  /\ log' = [log EXCEPT ![s].bcast = TRUE, ![s].snap = targetList,
                        ![s].local = (targetList = {} /\ sock[s].iface # "nil")]
  /\ task' = [task EXCEPT ![s]["ws"] =
       IF targetList # {} THEN At("bcast", targetList) ELSE At("handled", {})]
  /\ UNCHANGED <<subnet, held, lastCommandId, presented, wire, timer, key, assigned, hist, sock, macTable, allSockets, frames, faults>>

\* The text messages of at least two fields a peer sends: commandID and
\* commandName, the name of a command or "reply".
CommandIDs == {7, 8}
Commands == {"refresh-peers", "init", "update-peers"}
TextMessages == [cid : CommandIDs, name : Commands \cup {"reply"}]

\* A pump that takes no message for a reply.
IsReplyNever(name) == FALSE

\* commandName == "reply"
IsReply(name) == name = "reply"

\* A registry that has a handler for every name.
HandlerAny(so, name) == TRUE

\* handler := s.handlers[commandName] is not nil.
Handler(so, name) == name \in so.handlers

\* s.conn.ReadMessage() returns a text message of at least two fields. One
\* whose name is "reply" is logged and the pump loops; else the handler of
\* the name is looked up, and without one the error is "Unknown command" and
\* the reply follows.
WsReadText(s, m) ==
  LET known == Handler(sock[s], m.name) IN
  /\ task[s]["ws"].pc = "read"
  /\ sock[s].conn = "open"
  /\ Events < MaxEvents
  /\ frames' = frames + 1
  /\ log' = [log EXCEPT ![s] =
       [NoLog EXCEPT !.id = frames + 1, !.cid = m.cid, !.cmd = m.name,
                     !.err = IF IsReply(m.name) \/ known
                             THEN "nil" ELSE "unknown"]]
  /\ task' = [task EXCEPT ![s]["ws"] =
       IF IsReply(m.name) THEN At("handled", {})
       ELSE IF known THEN At("call", {}) ELSE At("reply", {s})]
  /\ UNCHANGED <<subnet, held, lastCommandId, presented, wire, timer, key, assigned, hist, sock, macTable, allSockets, faults>>

\* s.conn.ReadMessage() returns a text message of fewer than two fields:
\* "Invalid in-band command structure" is logged and the pump loops.
WsReadInvalid(s) ==
  /\ task[s]["ws"].pc = "read"
  /\ sock[s].conn = "open"
  /\ Events < MaxEvents
  /\ frames' = frames + 1
  /\ log' = [log EXCEPT ![s] =
       [NoLog EXCEPT !.id = frames + 1, !.err = "invalid"]]
  /\ task' = [task EXCEPT ![s]["ws"] = At("handled", {})]
  /\ UNCHANGED <<subnet, held, lastCommandId, presented, wire, timer, key, assigned, hist, sock, macTable, allSockets, faults>>

\* A list of peers that leaves out the record of the server.
ConnectedClients(asg) ==
  {<<asg[a].localIP, asg[a].name>> :
     a \in {b \in DOMAIN asg : asg[b] # Nil /\ asg[b].name # "vpn-server"}}

\* The list refreshPeers builds under assignedMutex: "IP\tNAME" for every
\* record that is not nil.
Connected(asg) ==
  {<<asg[a].localIP, asg[a].name>> : a \in {b \in DOMAIN asg : asg[b] # Nil}}

\* The handler of "refresh-peers": refreshPeers builds its list.
RefreshList(s) ==
  /\ task[s]["ws"].pc = "call" /\ log[s].cmd = "refresh-peers"
  /\ log' = [log EXCEPT ![s].peers = Connected(assigned)]
  /\ task' = [task EXCEPT ![s]["ws"].pc = "snap"]
  /\ UNCHANGED <<subnet, held, lastCommandId, presented, wire, timer, key, assigned, hist, sock, macTable, allSockets, frames, faults>>

\* A targetList of BroadcastCommand without the Socket that asked.
CommandTargetsOthers(s) == allSockets \ {s}

\* A targetList of BroadcastCommand with every Socket that was made,
\* registered by Serve or not.
CommandTargetsMade(s) == {d \in Socks : sock[d].conn = "open"}

\* The targetList BroadcastCommand builds under allSocketsLock: every Socket
\* of allSockets.
CommandTargets(s) == allSockets

\* refreshPeers goes on to BroadcastCommand("update-peers", connected), which
\* builds its targetList; the SendCommand calls follow one by one, then the
\* handler returns nil.
RefreshSnap(s) ==
  LET targetList == CommandTargets(s) IN
  /\ task[s]["ws"].pc = "snap"
  /\ log' = [log EXCEPT ![s].snap = targetList]
  /\ task' = [task EXCEPT ![s]["ws"] =
       IF targetList # {} THEN At("hpeers", targetList) ELSE At("reply", {s})]
  /\ UNCHANGED <<subnet, held, lastCommandId, presented, wire, timer, key, assigned, hist, sock, macTable, allSockets, frames, faults>>

\* The pump is done with the message and loops to the next read.
WsHandled(s) ==
  /\ task[s]["ws"].pc = "handled"
  /\ log' = [log EXCEPT ![s] = NoLog]
  /\ task' = [task EXCEPT ![s]["ws"].pc = "read"]
  /\ UNCHANGED <<subnet, held, lastCommandId, presented, wire, timer, key, assigned, hist, sock, macTable, allSockets, frames, faults>>

\* s.iface.Write(msg) returns an error on an open interface: Serve does not
\* look at what Write returns, and the pump loops to the next read as it
\* does after a write that succeeded.
IfaceWriteErr(s) ==
  /\ task[s]["ws"].pc = "handled"
  /\ log[s].local /\ sock[s].iface = "open"
  /\ Fault
  /\ log' = [log EXCEPT ![s] = NoLog]
  /\ task' = [task EXCEPT ![s]["ws"].pc = "read"]
  /\ UNCHANGED <<subnet, held, lastCommandId, presented, wire, timer, key, assigned, hist, sock, macTable, allSockets, frames>>

\* -------------------------------------------------- tunnel-read pump ----

\* The pump loops in "tun": s.iface.Read, then s.WriteMessage. Its steps are
\* the read that fails (here) and the write that fails (WriteErr).
TunReadErrOf(s, k) ==
  /\ task[s][k].pc = "tun"
  /\ IF sock[s].iface = "open" THEN Fault ELSE NoFault
  /\ sock' = [sock EXCEPT ![s].wg = @ - 1]
  /\ task' = [task EXCEPT ![s][k] = At("close", {})]
  /\ UNCHANGED <<subnet, held, lastCommandId, presented, wire, timer, key, assigned, hist, macTable, allSockets, log, frames>>

\* The tunnel-read pump of s.
TunReadErr(s) == TunReadErrOf(s, "tun")

\* ---------------------------------------------------------- keepalive ----

\* A keepalive that never takes the closechan case of its select.
SignalledNever(so) == FALSE

\* case <-s.closechan: a receive from the channel is ready once it is closed.
Signalled(so) == ~so.closechanopen

\* The keepalive loops in "select": on a tick within the timeout it writes a
\* ping, whose failure is WriteErr. Here its select takes <-s.closechan.
KaClosed(s) ==
  /\ task[s]["ka"].pc = "select"
  /\ Signalled(sock[s])
  /\ sock' = [sock EXCEPT ![s].wg = @ - 1]
  /\ task' = [task EXCEPT ![s]["ka"] = At("close", {})]
  /\ UNCHANGED <<subnet, held, lastCommandId, presented, wire, timer, key, assigned, hist, macTable, allSockets, log, frames, faults>>

\* The keepalive's timer fires and the last pong is older than the timeout.
KaTimeout(s) ==
  /\ task[s]["ka"].pc = "select"
  /\ Fault
  /\ sock' = [sock EXCEPT ![s].wg = @ - 1]
  /\ task' = [task EXCEPT ![s]["ka"] = At("close", {})]
  /\ UNCHANGED <<subnet, held, lastCommandId, presented, wire, timer, key, assigned, hist, macTable, allSockets, log, frames>>

\* ---------------------------------------------------------- closeDone ----

\* closeDone, after wg.Done: s.Close().
CloseDone(s, k) ==
  LET st == Close(s) IN
  /\ task[s][k].pc = "close"
  /\ sock' = st.sock /\ macTable' = st.macTable /\ allSockets' = st.allSockets
  /\ task' = [task EXCEPT ![s][k].pc = "chk"]
  /\ UNCHANGED <<subnet, held, lastCommandId, presented, wire, timer, key, assigned, hist, log, frames, faults>>

\* closeDone's test, read without a lock: is there a reaper that has not
\* been invoked?
ShouldReap(s) == sock[s].reaper /\ sock[s].reaped = FALSE

\* closeDone after Close returned: test whether to reap.
CloseDoneCheck(s, k) ==
  /\ task[s][k].pc = "chk"
  /\ task' = [task EXCEPT ![s][k].pc = IF ShouldReap(s) THEN "reap" ELSE "end"]
  /\ UNCHANGED <<subnet, held, lastCommandId, presented, wire, timer, key, assigned, hist, sock, macTable, allSockets, log, frames, faults>>

\* s.reaper(s.clientIP): under assignedMutex the record of the address is
\* released; then refreshPeers, whose BroadcastCommand builds its list of
\* targets, every Socket of allSockets. The writes follow one by one.
Reap(s, k) ==
  /\ task[s][k].pc = "reap"
  /\ assigned' = release(assigned, sock[s].clientIP)
  /\ sock' = [sock EXCEPT ![s].reaps = @ + 1]
  /\ task' = [task EXCEPT ![s][k] =
       IF allSockets # {} THEN At("peers", allSockets) ELSE At("set", {})]
  /\ UNCHANGED <<subnet, held, lastCommandId, presented, wire, timer, key, hist, macTable, allSockets, log, frames, faults>>

\* closeDone after the reaper returned: s.reaped = true.
SetReaped(s, k) ==
  /\ task[s][k].pc = "set"
  /\ sock' = [sock EXCEPT ![s].reaped = TRUE]
  /\ task' = [task EXCEPT ![s][k].pc = "end"]
  /\ UNCHANGED <<subnet, held, lastCommandId, presented, wire, timer, key, assigned, hist, macTable, allSockets, log, frames, faults>>

\* ---------------------------------------------------- specifications ----

Next ==
  \/ \E s \in Socks : Reject(s)
  \/ \E s \in Socks : JoinNoIP(s)
  \/ \E s \in Socks : JoinNoTun(s)
  \/ \E s \in Socks : Join(s)
  \/ \E s \in Socks : JoinInitErr(s)
  \/ \E s \in Socks : Serve(s)
  \/ \E s \in Socks : Wait(s)
  \/ \E s \in Socks, k \in Pumps, d \in Socks : WriteOK(s, k, d)
  \/ \E s \in Socks, k \in Pumps, d \in Socks : WriteErr(s, k, d)
  \/ \E s \in Socks : WsReadErr(s)
  \/ \E s \in Socks, msg \in Frames : WsRead(s, msg)
  \/ \E s \in Socks : WsLearn(s)
  \/ \E s \in Socks : WsRouteUnicast(s)
  \/ \E s \in Socks : WsRouteBroadcast(s)
  \/ \E s \in Socks, m \in TextMessages : WsReadText(s, m)
  \/ \E s \in Socks : WsReadInvalid(s)
  \/ \E s \in Socks : RefreshList(s)
  \/ \E s \in Socks : RefreshSnap(s)
  \/ \E s \in Socks : WsHandled(s)
  \/ \E s \in Socks : IfaceWriteErr(s)
  \/ \E s \in Socks : TunReadErr(s)
  \/ \E s \in Socks : KaClosed(s)
  \/ \E s \in Socks : KaTimeout(s)
  \/ \E s \in Socks, k \in Pumps : CloseDone(s, k)
  \/ \E s \in Socks, k \in Pumps : CloseDoneCheck(s, k)
  \/ \E s \in Socks, k \in Pumps : Reap(s, k)
  \/ \E s \in Socks, k \in Pumps : SetReaped(s, k)

Spec == Init /\ [][Next]_vars

TypeOK ==
  /\ \A s \in Socks : sock[s].wg >= 0 /\ sock[s].conn \in {"none", "refused", "open", "closed"}
  /\ allSockets \subseteq Socks
  /\ \A m \in Macs : macTable[m] \in Socks \cup {NoSock}

\* --------------------------------------------------------- the client ----

\* The client process has one Socket, MakeSocket("0", conn, nil, nil), with
\* the handlers of "init" and "update-peers", and calls Serve and Wait.
TheClient == CHOOSE s \in Socks : \A u \in Socks : s <= u

ClientSocket ==
  AddCommandHandler(
    AddCommandHandler(MakeSocket(ClientSideIP, "nil", FALSE), "init"),
    "update-peers")

InitClient ==
  /\ subnet = Subnet30
  /\ assigned = InitAssigned
  /\ hist = <<>>
  /\ sock = [s \in Socks |-> IF s = TheClient THEN ClientSocket ELSE NoSocket]
  /\ task = [s \in Socks |->
               [k \in Kinds |->
                  IF k # "main" THEN OffTask
                  ELSE IF s = TheClient THEN At("serve", {})
                  ELSE At("idle", {})]]
  /\ macTable = [m \in Macs |-> NoSock]
  /\ allSockets = {}
  /\ log = [s \in Socks |-> NoLog]
  /\ frames = 0
  /\ faults = 0
  /\ key = [s \in Socks |-> ""]
  /\ wire = [s \in Socks |-> <<>>]
  /\ timer = NoTimer
  /\ presented = [m \in Macs |-> NoSock]
  /\ lastCommandId = 0
  /\ held = NoneHeld

\* os.Exit, or a panic nobody recovers: no goroutine of the process takes
\* another step.
Exited(s) == [k \in Kinds |-> At("exit", {})]

\* The handler of "init" ends the process: the MTU is no number, the TUN
\* device cannot be created, or configureClient fails.
InitExit(s) ==
  /\ task[s]["ws"].pc = "call" /\ log[s].cmd = "init"
  /\ task' = [task EXCEPT ![s] = Exited(s)]
  /\ UNCHANGED <<subnet, held, lastCommandId, presented, wire, timer, key, assigned, hist, sock, macTable, allSockets, log, frames, faults>>

\* A Socket whose interface counts as not set whatever it is.
IsSetNever(so) == FALSE

\* SetInterface: s.iface != nil.
IsSet(so) == so.iface # "nil"

\* The handler of "init" has a new TUN device and calls
\* socket.SetInterface(iface): under s.writeLock, an interface that is set
\* makes it return the error "Cannot re-define interface. Already set.";
\* else s.iface is set and tryServeIfaceRead does wg.Add(1) and starts the
\* tunnel-read pump. The handler goes on to SendCommand("refresh-peers").
SetInterface(s) ==
  /\ task[s]["ws"].pc = "call" /\ log[s].cmd = "init"
  /\ IF IsSet(sock[s])
     THEN /\ log' = [log EXCEPT ![s].err = "already"]
          /\ task' = [task EXCEPT ![s]["ws"].pc = "bind"]
          /\ UNCHANGED sock
     ELSE /\ sock' = [sock EXCEPT ![s].iface = "open", ![s].wg = @ + 1]
          /\ task' = [task EXCEPT ![s]["tun"] = At("tun", {s}),
                                  ![s]["ws"] = At("refresh", {s})]
          /\ UNCHANGED log
  /\ UNCHANGED <<subnet, held, lastCommandId, presented, wire, timer, key, assigned, hist, macTable, allSockets, frames, faults>>

\* The handler of "init" after SetInterface returned its error: os.Exit(1).
BindExit(s) ==
  /\ task[s]["ws"].pc = "bind"
  /\ task' = [task EXCEPT ![s] = Exited(s)]
  /\ UNCHANGED <<subnet, held, lastCommandId, presented, wire, timer, key, assigned, hist, sock, macTable, allSockets, log, frames, faults>>

\* What the handler of "update-peers" returns: nil, or the error of
\* json.Marshal or of the "peers" command.
HandlerResults == {"nil", "failed"}

\* The handler of "update-peers" returns r.
UpdatePeers(s, r) ==
  /\ task[s]["ws"].pc = "call" /\ log[s].cmd = "update-peers"
  /\ log' = [log EXCEPT ![s].err = r]
  /\ task' = [task EXCEPT ![s]["ws"] = At("reply", {s})]
  /\ UNCHANGED <<subnet, held, lastCommandId, presented, wire, timer, key, assigned, hist, sock, macTable, allSockets, frames, faults>>

NextClient ==
  \/ \E s \in Socks : Serve(s)
  \/ \E s \in Socks : Wait(s)
  \/ \E s \in Socks, k \in Pumps, d \in Socks : WriteOK(s, k, d)
  \/ \E s \in Socks, k \in Pumps, d \in Socks : WriteErr(s, k, d)
  \/ \E s \in Socks : WsReadErr(s)
  \/ \E s \in Socks, msg \in Frames : WsRead(s, msg)
  \/ \E s \in Socks : WsLearn(s)
  \/ \E s \in Socks : WsRouteUnicast(s)
  \/ \E s \in Socks : WsRouteBroadcast(s)
  \/ \E s \in Socks, m \in TextMessages : WsReadText(s, m)
  \/ \E s \in Socks : WsReadInvalid(s)
  \/ \E s \in Socks : InitExit(s)
  \/ \E s \in Socks : SetInterface(s)
  \/ \E s \in Socks : BindExit(s)
  \/ \E s \in Socks, r \in HandlerResults : UpdatePeers(s, r)
  \/ \E s \in Socks : WsHandled(s)
  \/ \E s \in Socks : TunReadErr(s)
  \/ \E s \in Socks : KaClosed(s)
  \/ \E s \in Socks : KaTimeout(s)
  \/ \E s \in Socks, k \in Pumps : CloseDone(s, k)
  \/ \E s \in Socks, k \in Pumps : CloseDoneCheck(s, k)

SpecClient == InitClient /\ [][NextClient]_vars

\* ------------------------------------------- the calls of one Endpoint ----

\* A caller that has made a Socket without an interface, as the client
\* does, and may call SetInterface before it calls Serve.
InitApi == InitClient

\* The goroutines of a Socket with a second tunnel-read pump.
ApiPumps == Pumps \cup {"tun2"}

\* The caller calls s.SetInterface(iface) before s.Serve(): an interface
\* that is set makes it return its error; else s.iface is set and
\* tryServeIfaceRead does wg.Add(1) and starts the tunnel-read pump.
Bind(s) ==
  /\ task[s]["main"].pc = "serve"
  /\ IF IsSet(sock[s])
     THEN UNCHANGED <<sock, task>>
     ELSE /\ sock' = [sock EXCEPT ![s].iface = "open", ![s].wg = @ + 1]
          /\ task' = [task EXCEPT ![s]["tun"] = At("tun", {s})]
  /\ UNCHANGED <<subnet, held, lastCommandId, presented, wire, timer, key, assigned, hist, macTable, allSockets, log, frames, faults>>

\* The caller calls s.AddCommandHandler("reply", ...) before s.Serve().
Register(s) ==
  /\ task[s]["main"].pc = "serve"
  /\ sock' = [sock EXCEPT ![s] = AddCommandHandler(@, "reply")]
  /\ UNCHANGED <<subnet, held, lastCommandId, presented, wire, timer, key, assigned, hist, task, macTable, allSockets, log, frames, faults>>

\* The second tunnel-read pump of s.
TunReadErr2(s) == TunReadErrOf(s, "tun2")

NextApi ==
  \/ \E s \in Socks : Bind(s)
  \/ \E s \in Socks : Register(s)
  \/ \E s \in Socks : Serve(s)
  \/ \E s \in Socks : Wait(s)
  \/ \E s \in Socks, k \in ApiPumps, d \in Socks : WriteOK(s, k, d)
  \/ \E s \in Socks, k \in ApiPumps, d \in Socks : WriteErr(s, k, d)
  \/ \E s \in Socks : WsReadErr(s)
  \/ \E s \in Socks, msg \in Frames : WsRead(s, msg)
  \/ \E s \in Socks : WsLearn(s)
  \/ \E s \in Socks : WsRouteUnicast(s)
  \/ \E s \in Socks : WsRouteBroadcast(s)
  \/ \E s \in Socks, m \in TextMessages : WsReadText(s, m)
  \/ \E s \in Socks : WsReadInvalid(s)
  \/ \E s \in Socks : InitExit(s)
  \/ \E s \in Socks : SetInterface(s)
  \/ \E s \in Socks : BindExit(s)
  \/ \E s \in Socks, r \in HandlerResults : UpdatePeers(s, r)
  \/ \E s \in Socks : WsHandled(s)
  \/ \E s \in Socks : TunReadErr(s)
  \/ \E s \in Socks : TunReadErr2(s)
  \/ \E s \in Socks : KaClosed(s)
  \/ \E s \in Socks : KaTimeout(s)
  \/ \E s \in Socks, k \in ApiPumps : CloseDone(s, k)
  \/ \E s \in Socks, k \in ApiPumps : CloseDoneCheck(s, k)

SpecApi == InitApi /\ [][NextApi]_vars

\* The goroutines Serve and SetInterface have started for s.
Started(s) == {k \in ApiPumps : task[s][k].pc # "off"}

\* C25: over any sequence of SetInterface and Serve calls on one Endpoint at
\* most three background tasks ever run for it, at most one tunnel-read
\* pump, one transport-read pump and one keepalive: binding an interface
\* before Serve does not start a second tunnel-read pump.
C25_AtMostThreeTasks ==
  \A s \in Socks :
    /\ Cardinality(Started(s)) <= 3
    /\ task[s]["tun2"].pc = "off"

\* ------------------------------------------------ the keepalive in time ----

\* The keepalive of the client's Socket with a clock: one unit of time is an
\* eighth of a minute, timeout is 30 s. Serve has returned at time 0, when
\* lastResponse is set and the first time.After(timeout / 2) is started.
HalfTimeout == timeout \div 2

InitKeepalive ==
  /\ subnet = Subnet30
  /\ assigned = InitAssigned
  /\ hist = <<>>
  /\ sock = [s \in Socks |->
       IF s = TheClient THEN [ClientSocket EXCEPT !.wg = 2] ELSE NoSocket]
  /\ task = [s \in Socks |->
       IF s = TheClient
       THEN [k \in Kinds |->
               CASE k = "main" -> At("wait", {})
                 [] k = "ws" -> At("read", {})
                 [] k = "ka" -> At("select", {s})
                 [] OTHER -> OffTask]
       ELSE [k \in Kinds |-> IF k = "main" THEN At("idle", {}) ELSE OffTask]]
  /\ macTable = [m \in Macs |-> NoSock]
  /\ allSockets = {TheClient}
  /\ log = [s \in Socks |-> NoLog]
  /\ frames = 0
  /\ faults = 0
  /\ key = [s \in Socks |-> ""]
  /\ wire = [s \in Socks |-> <<>>]
  /\ timer = NoTimer
  /\ presented = [m \in Macs |-> NoSock]
  /\ lastCommandId = 0
  /\ held = NoneHeld

\* A keepalive in its select has a case that is ready: the timer is due, or
\* closechan is closed.
SelectReady(s) ==
  /\ task[s]["ka"].pc = "select"
  /\ \/ timer.now >= timer.armed + HalfTimeout
     \/ ~sock[s].closechanopen

\* A unit of time passes. A select with a ready case is taken before the
\* time goes on; a goroutine inside WriteMessage (waiting for the mutex, or
\* for the transport to take the message) stays there as time goes on.
TimePasses ==
  /\ timer.now < MaxTime
  /\ \A s \in Socks : ~SelectReady(s)
  /\ timer' = [timer EXCEPT !.now = @ + 1]
  /\ UNCHANGED <<subnet, held, lastCommandId, presented, wire, key, assigned, hist, sock, task, macTable, allSockets, log, frames, faults>>

\* The PongHandler, called from s.conn.ReadMessage() of the transport-read
\* pump: lastResponse = time.Now().
Pong(s) ==
  /\ task[s]["ws"].pc = "read" /\ sock[s].conn = "open"
  /\ timer.lastResponse # timer.now
  /\ timer' = [timer EXCEPT !.lastResponse = timer.now]
  /\ UNCHANGED <<subnet, held, lastCommandId, presented, wire, key, assigned, hist, sock, task, macTable, allSockets, log, frames, faults>>

\* time.Now().Sub(lastResponse) > timeout
TimedOut(now, lastResponse) == now - lastResponse > timeout

\* case <-time.After(timeout / 2): the keepalive returns if the last pong is
\* older than the timeout (its deferred closeDone starts with wg.Done), and
\* else calls s.WriteMessage(websocket.PingMessage, ...).
KaTick(s) ==
  /\ task[s]["ka"].pc = "select"
  /\ timer.now >= timer.armed + HalfTimeout
  /\ IF TimedOut(timer.now, timer.lastResponse)
     THEN /\ sock' = [sock EXCEPT ![s].wg = @ - 1]
          /\ task' = [task EXCEPT ![s]["ka"] = At("close", {})]
     ELSE /\ task' = [task EXCEPT ![s]["ka"] = At("ping", {s})]
          /\ UNCHANGED sock
  /\ UNCHANGED <<subnet, held, lastCommandId, presented, wire, timer, key, assigned, hist, macTable, allSockets, log, frames, faults>>

\* WriteMessage of the ping returns nil: the loop starts the next
\* time.After(timeout / 2).
KaPingOK(s) ==
  /\ task[s]["ka"].pc = "ping"
  /\ sock[s].conn = "open"
  /\ task' = [task EXCEPT ![s]["ka"] = At("select", {s})]
  /\ timer' = [timer EXCEPT !.armed = timer.now]
  /\ UNCHANGED <<subnet, held, lastCommandId, presented, wire, key, assigned, hist, sock, macTable, allSockets, log, frames, faults>>

\* WriteMessage of the ping fails and calls s.Close(); the keepalive
\* returns.
KaPingErr(s) ==
  LET st == Close(s) IN
  /\ task[s]["ka"].pc = "ping"
  /\ IF sock[s].conn = "open" THEN Fault ELSE NoFault
  /\ sock' = [st.sock EXCEPT ![s].wg = @ - 1]
  /\ macTable' = st.macTable
  /\ allSockets' = st.allSockets
  /\ task' = [task EXCEPT ![s]["ka"] = At("close", {})]
  /\ UNCHANGED <<subnet, held, lastCommandId, presented, wire, timer, key, assigned, hist, log, frames>>

NextKeepalive ==
  \/ TimePasses
  \/ \E s \in Socks : Pong(s)
  \/ \E s \in Socks : KaTick(s)
  \/ \E s \in Socks : KaPingOK(s)
  \/ \E s \in Socks : KaPingErr(s)
  \/ \E s \in Socks : KaClosed(s)
  \/ \E s \in Socks : WsReadErr(s)
  \/ \E s \in Socks, k \in Pumps : CloseDone(s, k)
  \/ \E s \in Socks, k \in Pumps : CloseDoneCheck(s, k)
  \/ \E s \in Socks : Wait(s)

SpecKeepalive == InitKeepalive /\ [][NextKeepalive]_vars

\* The keepalive of s has not returned.
KaRuns(s) == task[s]["ka"].pc \in {"select", "ping"}

\* C17: if no pong arrives for longer than timeout, the keepalive closes the
\* Socket no later than timeout / 2 after lastResponse + timeout: at no
\* later time is it still in its loop.
C17_ClosedInTime ==
  \A s \in Socks :
    KaRuns(s) => timer.now <= timer.lastResponse + timeout + HalfTimeout

\* ------------------------------------------------------ the writeLock ----

\* WriteMessage step by step. Every connection has a Socket that is served;
\* each of its goroutines calls WriteMessage from time to time: the
\* tunnel-read pump and the keepalive on their own Socket, the
\* transport-read pump on any Socket (a forwarded frame, a command, a
\* reply). MaxEvents bounds the calls.
ServedSocket(s) ==
  [AddCommandHandler(MakeSocket(AliceIP + s - 1, "open", TRUE), "refresh-peers")
     EXCEPT !.wg = 3]

InitLock ==
  /\ subnet = Subnet29
  /\ assigned = InitAssigned
  /\ hist = <<>>
  /\ sock = [s \in Socks |-> ServedSocket(s)]
  /\ task = [s \in Socks |->
               [k \in Kinds |->
                  IF k = "main" THEN At("wait", {})
                  ELSE IF k \in Pumps THEN At("run", {}) ELSE OffTask]]
  /\ macTable = [m \in Macs |-> NoSock]
  /\ allSockets = Socks
  /\ log = [s \in Socks |-> NoLog]
  /\ frames = 0
  /\ faults = 0
  /\ key = [s \in Socks |-> ConfigKey]
  /\ wire = [s \in Socks |-> <<>>]
  /\ timer = NoTimer
  /\ presented = [m \in Macs |-> NoSock]
  /\ lastCommandId = 0
  /\ held = NoneHeld

\* The Sockets goroutine k of s writes to.
WritesTo(s, k) == IF k = "ws" THEN Socks ELSE {s}

\* Goroutine k of s calls d.WriteMessage and comes to s.writeLock.Lock().
LkCall(s, k, d) ==
  /\ task[s][k].pc = "run" /\ d \in WritesTo(s, k)
  /\ frames < MaxEvents
  /\ frames' = frames + 1
  /\ task' = [task EXCEPT ![s][k] = At("lock", {d})]
  /\ UNCHANGED <<subnet, held, lastCommandId, presented, wire, timer, key, assigned, hist, sock, macTable, allSockets, log, faults>>

\* A mutex that anyone may take at any time.
FreeAlways(so) == TRUE

\* sync.Mutex: Lock returns only when no goroutine holds the mutex.
Free(so) == so.writeLock = <<>>

\* s.writeLock.Lock() returns, in WriteMessage ("lock") or in Close
\* ("closelock"): the goroutine holds the mutex of d.
LkLock(s, k, d) ==
  /\ task[s][k].pc \in {"lock", "closelock"} /\ d \in task[s][k].tgt
  /\ Free(sock[d])
  /\ sock' = [sock EXCEPT ![d].writeLock = <<s, k>>]
  /\ task' = [task EXCEPT ![s][k].pc =
       IF task[s][k].pc = "lock" THEN "write" ELSE "closing"]
  /\ UNCHANGED <<subnet, held, lastCommandId, presented, wire, timer, key, assigned, hist, macTable, allSockets, log, frames, faults>>

\* s.conn.WriteMessage returns, with an error or without (with one if the
\* transport is closed), and s.writeLock.Unlock(). After an error Close
\* follows.
LkWrite(s, k, d, err) ==
  /\ task[s][k].pc = "write" /\ d \in task[s][k].tgt
  /\ sock[d].conn # "open" => err
  /\ sock' = [sock EXCEPT ![d].writeLock = <<>>]
  /\ task' = [task EXCEPT ![s][k] =
       IF err THEN At("closelock", {d}) ELSE At("run", {})]
  /\ UNCHANGED <<subnet, held, lastCommandId, presented, wire, timer, key, assigned, hist, macTable, allSockets, log, frames, faults>>

\* Close with the mutex held, up to the deferred Unlock. The error goes
\* back to the caller: the pumps of the tunnel and the keepalive return, the
\* transport-read pump goes on.
LkClose(s, k, d) ==
  LET st == Close(d) IN
  /\ task[s][k].pc = "closing" /\ d \in task[s][k].tgt
  /\ sock' = [st.sock EXCEPT ![d].writeLock = <<>>]
  /\ macTable' = st.macTable
  /\ allSockets' = st.allSockets
  /\ task' = [task EXCEPT ![s][k] =
       IF k = "ws" THEN At("run", {}) ELSE At("returned", {})]
  /\ UNCHANGED <<subnet, held, lastCommandId, presented, wire, timer, key, assigned, hist, log, frames, faults>>

NextLock ==
  \/ \E s \in Socks, k \in Pumps, d \in Socks : LkCall(s, k, d)
  \/ \E s \in Socks, k \in Pumps, d \in Socks : LkLock(s, k, d)
  \/ \E s \in Socks, k \in Pumps, d \in Socks, err \in BOOLEAN :
       LkWrite(s, k, d, err)
  \/ \E s \in Socks, k \in Pumps, d \in Socks : LkClose(s, k, d)

SpecLock == InitLock /\ [][NextLock]_vars

\* The goroutines inside the transport write of d, and those inside Close.
InWrite(d) ==
  {w \in Socks \X Pumps :
     task[w[1]][w[2]].pc = "write" /\ d \in task[w[1]][w[2]].tgt}
InClose(d) ==
  {w \in Socks \X Pumps :
     task[w[1]][w[2]].pc = "closing" /\ d \in task[w[1]][w[2]].tgt}

\* C14: writes to the transport of one Endpoint are mutually exclusive: in
\* no reachable state are two goroutines inside the transport write of the
\* same Endpoint at once (nor one inside it while another closes the
\* transport), and the one inside holds the mutex.
C14_WritesExclusive ==
  \A d \in Socks :
    /\ Cardinality(InWrite(d) \cup InClose(d)) <= 1
    /\ \A w \in InWrite(d) \cup InClose(d) : sock[d].writeLock = w

\* One goroutine is inside the transport write of a Socket while two
\* others wait for its mutex.
C14_Witness ==
  \E d \in Socks :
    /\ InWrite(d) # {}
    /\ Cardinality({w \in Socks \X Pumps :
          task[w[1]][w[2]].pc = "lock" /\ d \in task[w[1]][w[2]].tgt}) = 2

\* ------------------------------------------------- the switching table ----

\* Two connections have joined and are served, nothing is learned yet. They
\* send up to MaxMacFrames binary messages; no transport and no interface
\* fails, so that no goroutine returns.
Stations == {s \in Socks : s <= 2}

InitMac ==
  /\ subnet = Subnet29
  /\ assigned = pickIP(pickIP(InitAssigned, ClientName(1), 1), ClientName(2), 2)
  /\ hist = <<>>
  /\ sock = [s \in Socks |->
       IF s \in Stations THEN ServedSocket(s) ELSE NoSocket]
  /\ task = [s \in Socks |->
       IF s \in Stations
       THEN [k \in Kinds |->
               CASE k = "main" -> At("wait", {})
                 [] k = "ws" -> At("read", {})
                 [] k = "ka" -> At("select", {s})
                 [] k = "tun" -> At("tun", {s})
                 [] OTHER -> OffTask]
       ELSE [k \in Kinds |-> IF k = "main" THEN At("idle", {}) ELSE OffTask]]
  /\ macTable = [m \in Macs |-> NoSock]
  /\ allSockets = Stations
  /\ log = [s \in Socks |-> NoLog]
  /\ frames = 0
  /\ faults = 0
  /\ key = [s \in Socks |-> IF s \in Stations THEN ConfigKey ELSE ""]
  /\ wire = [s \in Socks |-> <<>>]
  /\ timer = NoTimer
  /\ presented = [m \in Macs |-> NoSock]
  /\ lastCommandId = 0
  /\ held = NoneHeld

\* s.conn.ReadMessage() returns a binary message.
MacRead(s, msg) ==
  /\ frames < MaxMacFrames
  /\ ReadMessage(s, msg)

NextMac ==
  \/ \E s \in Socks, msg \in Frames : MacRead(s, msg)
  \/ \E s \in Socks : WsLearn(s)
  \/ \E s \in Socks : WsRouteUnicast(s)
  \/ \E s \in Socks : WsRouteBroadcast(s)
  \/ \E s \in Socks : WsHandled(s)
  \/ \E s \in Socks, k \in Pumps, d \in Socks : WriteOK(s, k, d)

SpecMac == InitMac /\ [][NextMac]_vars

\* ------------------------------------------------ the scheduled Sockets ----

\* The two served connections of InitMac with everything that can happen to
\* a served Socket: messages, failures, timeouts, and the teardown.
NextServed ==
  \/ \E s \in Socks : Wait(s)
  \/ \E s \in Socks, k \in Pumps, d \in Socks : WriteOK(s, k, d)
  \/ \E s \in Socks, k \in Pumps, d \in Socks : WriteErr(s, k, d)
  \/ \E s \in Socks : WsReadErr(s)
  \/ \E s \in Socks, msg \in Frames : WsRead(s, msg)
  \/ \E s \in Socks : WsLearn(s)
  \/ \E s \in Socks : WsRouteUnicast(s)
  \/ \E s \in Socks : WsRouteBroadcast(s)
  \/ \E s \in Socks, m \in TextMessages : WsReadText(s, m)
  \/ \E s \in Socks : WsReadInvalid(s)
  \/ \E s \in Socks : RefreshList(s)
  \/ \E s \in Socks : RefreshSnap(s)
  \/ \E s \in Socks : WsHandled(s)
  \/ \E s \in Socks : IfaceWriteErr(s)
  \/ \E s \in Socks : TunReadErr(s)
  \/ \E s \in Socks : KaClosed(s)
  \/ \E s \in Socks : KaTimeout(s)
  \/ \E s \in Socks, k \in Pumps : CloseDone(s, k)
  \/ \E s \in Socks, k \in Pumps : CloseDoneCheck(s, k)
  \/ \E s \in Socks, k \in Pumps : Reap(s, k)
  \/ \E s \in Socks, k \in Pumps : SetReaped(s, k)

\* The steps a goroutine of s takes by itself once it is scheduled: a read
\* on a closed transport or interface returns its error, the keepalive sees
\* closechan closed, a write of the pump or the reaper returns (with an
\* error on a closed transport), the pump goes on with the message in hand,
\* closeDone runs to its end and Wait returns. What waits for the peer, the
\* tunnel or the timer is not among them.
Runs(s) ==
  \/ sock[s].conn # "open" /\ WsReadErr(s)
  \/ sock[s].iface # "open" /\ TunReadErr(s)
  \/ KaClosed(s)
  \/ \E k \in Pumps, d \in Socks :
       /\ task[s][k].pc \in WriteOKSites
       /\ WriteOK(s, k, d) \/ (sock[d].conn # "open" /\ WriteErr(s, k, d))
  \/ WsLearn(s) \/ WsRouteUnicast(s) \/ WsRouteBroadcast(s)
  \/ RefreshList(s) \/ RefreshSnap(s) \/ WsHandled(s)
  \/ \E k \in Pumps :
       CloseDone(s, k) \/ CloseDoneCheck(s, k) \/ Reap(s, k) \/ SetReaped(s, k)
  \/ Wait(s)

\* A scheduler that lets the goroutines of every Socket run.
SpecFair == InitMac /\ [][NextServed]_vars /\ \A s \in Socks : WF_vars(Runs(s))

\* ------------------------------------------------------ the commandIDs ----

\* SendCommand step by step: the atomic add on lastCommandId, then the write
\* of rawSendCommand. serveWs has made a Socket for each of two connections
\* and is about to send "init" on it; it calls Serve then. A served pump reads
\* "refresh-peers" from its peer at most MaxRefresh times in all: the handler
\* runs refreshPeers, whose BroadcastCommand calls SendCommand on every
\* Socket of its targetList, and the pump writes the reply. No write fails.
MaxRefresh == 3

InitCmd ==
  /\ subnet = Subnet29
  /\ assigned = InitAssigned
  /\ hist = <<>>
  /\ sock = [s \in Socks |->
               IF s \in Stations THEN [ServedSocket(s) EXCEPT !.wg = 0]
               ELSE NoSocket]
  /\ task = [s \in Socks |->
               [k \in Kinds |->
                  IF k = "main" /\ s \in Stations THEN At("send", {s})
                  ELSE OffTask]]
  /\ macTable = [m \in Macs |-> NoSock]
  /\ allSockets = {}
  /\ log = [s \in Socks |-> [NoLog EXCEPT !.command = "init"]]
  /\ frames = 0
  /\ faults = 0
  /\ key = [s \in Socks |-> ConfigKey]
  /\ wire = [s \in Socks |-> <<>>]
  /\ timer = NoTimer
  /\ presented = [m \in Macs |-> NoSock]
  /\ lastCommandId = 0
  /\ held = NoneHeld

\* A counter that hands out the number it has.
AddNothing(n) == n

\* atomic.AddUint64(&lastCommandId, 1): the new value of the counter. (No
\* run comes near 2^64 commands.)
AddUint64(n) == n + 1

\* d.SendCommand(command, ...) called by goroutine k of s, up to the call of
\* rawSendCommand: the atomic add gives the commandID.
SendCommand(s, k, d) ==
  /\ task[s][k].pc = "send" /\ d \in task[s][k].tgt
  /\ log[s].to = NoSock
  /\ lastCommandId' = AddUint64(lastCommandId)
  /\ log' = [log EXCEPT ![s].to = d,
                        ![s].commandId = AddUint64(lastCommandId)]
  /\ task' = [task EXCEPT ![s][k].tgt = @ \ {d}]
  /\ UNCHANGED <<subnet, held, presented, wire, timer, key, assigned, hist, sock, macTable, allSockets, frames, faults>>

\* Where goroutine k goes after its last SendCommand: serveWs to Serve, the
\* pump to the reply of the command whose handler has returned.
AfterSend(s, k) == IF k = "main" THEN At("serve", {}) ELSE At("reply", {s})

\* rawSendCommand(commandId, command, ...) of the SendCommand goroutine k of
\* s is in: "commandId|command|..." is written to the transport.
rawSendCommand(s, k) ==
  /\ task[s][k].pc = "send" /\ log[s].to # NoSock
  /\ wire' = [wire EXCEPT ![log[s].to] =
       Transmit(@, [cid |-> log[s].commandId, name |-> log[s].command,
                    from |-> s])]
  /\ log' = [log EXCEPT ![s].to = NoSock, ![s].commandId = 0]
  /\ task' = [task EXCEPT ![s][k] =
       IF task[s][k].tgt = {} THEN AfterSend(s, k) ELSE @]
  /\ UNCHANGED <<subnet, held, lastCommandId, presented, timer, key, assigned, hist, sock, macTable, allSockets, frames, faults>>

\* The pump of s reads "c|refresh-peers|now"; the handler calls
\* refreshPeers, and BroadcastCommand("update-peers", ...) copies allSockets
\* to its targetList.
CmdRefresh(s, c) ==
  /\ task[s]["ws"].pc = "read"
  /\ frames < MaxRefresh
  /\ frames' = frames + 1
  /\ log' = [log EXCEPT ![s] =
       [NoLog EXCEPT !.id = frames + 1, !.cid = c, !.cmd = "refresh-peers",
                     !.snap = allSockets, !.command = "update-peers"]]
  /\ task' = [task EXCEPT ![s]["ws"] = At("send", allSockets)]
  /\ UNCHANGED <<subnet, held, lastCommandId, presented, wire, timer, key, assigned, hist, sock, macTable, allSockets, faults>>

\* s.rawSendCommand(commandId, "reply", ...) with the commandId of the
\* message the pump read; the pump loops to its next read.
CmdReply(s) ==
  /\ task[s]["ws"].pc = "reply"
  /\ wire' = [wire EXCEPT ![s] =
       Transmit(@, [cid |-> log[s].cid, name |-> "reply", from |-> s])]
  /\ log' = [log EXCEPT ![s] = NoLog]
  /\ task' = [task EXCEPT ![s]["ws"] = At("read", {})]
  /\ UNCHANGED <<subnet, held, lastCommandId, presented, timer, key, assigned, hist, sock, macTable, allSockets, frames, faults>>

NextCmd ==
  \/ \E s \in Socks, k \in {"main", "ws"}, d \in Socks : SendCommand(s, k, d)
  \/ \E s \in Socks, k \in {"main", "ws"} : rawSendCommand(s, k)
  \/ \E s \in Socks : Serve(s)
  \/ \E s \in Socks, c \in CommandIDs : CmdRefresh(s, c)
  \/ \E s \in Socks : CmdReply(s)

SpecCmd == InitCmd /\ [][NextCmd]_vars

\* ------------------------------------------------------ the four locks ----

\* Every Lock, RLock and Unlock of the relay as a step of its own. A
\* goroutine is at a call of Lock or RLock until the call returns; what it
\* does with the mutex held, up to the Unlock, is the step after. The
\* connections 1 .. NSock - 1 have a served Socket, connection NSock has
\* just arrived. MaxCalls bounds the messages the pumps receive or send, the
\* pumps that leave their loop and the connections serveWs takes up.
MaxCalls == 2

\* A goroutine: where it is (pc), the Socket whose method it is in or the
\* Socket BroadcastMessage skips (cur), the Sockets of a targetList it has
\* still to write to (tgt), and what follows the writes (ret).
Pos(pc, cur, tgt, ret) == [pc |-> pc, tgt |-> tgt, cur |-> cur, ret |-> ret]
InLoop == Pos("run", NoSock, {}, "run")
Returned == Pos("end", NoSock, {}, "run")
NotStarted == Pos("off", NoSock, {}, "run")

\* The connection that has just arrived.
Newcomer == NSock

\* The pool after the connections 1 .. n have joined, one after the other.
RECURSIVE JoinedUpTo(_)
JoinedUpTo(n) ==
  IF n = 0 THEN InitAssigned
  ELSE pickIP(JoinedUpTo(n - 1), ClientName(n), n)

InitLocks ==
  /\ subnet = Subnet29
  /\ assigned = JoinedUpTo(Newcomer - 1)
  /\ hist = <<>>
  /\ sock = [s \in Socks |->
       IF s = Newcomer THEN NoSocket
       ELSE [ServedSocket(s) EXCEPT !.mac = IF s = 1 THEN 2 ELSE defaultMac]]
  /\ task = [s \in Socks |->
       [k \in Kinds |->
          IF s = Newcomer
          THEN IF k = "main" THEN Pos("accept", s, {}, "serve") ELSE NotStarted
          ELSE IF k = "main" THEN Pos("wait", s, {}, "run")
          ELSE IF k \in Pumps THEN InLoop ELSE NotStarted]]
  /\ macTable = [m \in Macs |-> IF m = 2 THEN 1 ELSE NoSock]
  /\ allSockets = Socks \ {Newcomer}
  /\ log = [s \in Socks |-> NoLog]
  /\ frames = 0
  /\ faults = 0
  /\ key = [s \in Socks |-> ConfigKey]
  /\ wire = [s \in Socks |-> <<>>]
  /\ timer = NoTimer
  /\ presented = [m \in Macs |-> IF m = 2 THEN 1 ELSE NoSock]
  /\ lastCommandId = 0
  /\ held = NoneHeld

\* The calls of Lock that wait for a mutex outside the Sockets: in
\* setMACFrom, Close, Serve, refreshPeers, the reaper and pickIP.
LockCalls ==
  [macLock |-> {"mlock", "cmac"},
   allSocketsLock |-> {"call", "sall"},
   assignedMutex |-> {"plock", "rlock", "klock"}]

\* The calls of RLock: in FindSocketByMAC, BroadcastMessage and
\* BroadcastCommand.
RLockCalls ==
  [macLock |-> {"mrlock"}, allSocketsLock |-> {"arlock"}, assignedMutex |-> {}]

\* The calls of s.writeLock.Lock(): in WriteMessage, Close, Serve and
\* SetInterface.
WriteLockCalls == {"wlock", "clock", "slock", "ilock"}

\* The goroutines.
Goroutines == Socks \X Kinds

\* The goroutines inside a call of l.Lock() that has not returned.
Pending(l) == {g \in Goroutines : task[g[1]][g[2]].pc \in LockCalls[l]}

\* The goroutines that hold l, for reading or for writing.
Holders(l) == {<<h[1], h[2]>> : h \in held[l]}

\* Lock returns when no goroutine holds the mutex.
CanLock(l) == held[l] = {}

\* RLock of sync.RWMutex returns when no goroutine holds the mutex for
\* writing and no call of Lock is pending.
CanRLock(l) == {h \in held[l] : h[3] = "w"} = {} /\ Pending(l) = {}

\* The holders of a mutex after Lock or RLock has returned for goroutine g.
Locked(h, g) == h \cup {<<g[1], g[2], "w">>}
RLocked(h, g) == h \cup {<<g[1], g[2], "r">>}

\* An Unlock that leaves the mutex held.
UnlockNever(h, g) == h

\* The holders of a mutex after goroutine g has called Unlock or RUnlock.
Unlock(h, g) == {x \in h : <<x[1], x[2]>> # g}

\* The positions of a goroutine after a write of a targetList (or the one
\* write of a caller of WriteMessage) has returned: the next Socket of the
\* list, in any order, or what follows the list.
\*   "run"    the pump goes on with its loop;
\*   "reply"  the transport-read pump writes the reply of a command;
\*   "serve"  serveWs calls Serve;
\*   "exit"   the pump returns, and closeDone runs;
\*   "reap"   closeDone tests for the reaper after its Close;
\*   "set"    closeDone sets s.reaped after the reaper.
After(s, p) ==
  IF p.tgt # {}
  THEN {Pos("wlock", d, p.tgt \ {d}, p.ret) : d \in p.tgt}
  ELSE {CASE p.ret = "reply" -> Pos("wlock", s, {}, "run")
          [] p.ret = "serve" -> Pos("slock", s, {}, "run")
          [] p.ret = "exit" -> Pos("done", s, {}, "run")
          [] p.ret = "reap" ->
               IF ShouldReap(s) THEN Pos("rlock", s, {}, "set") ELSE Returned
          [] p.ret = "set" -> Pos("set", s, {}, "run")
          [] OTHER -> InLoop}

\* A call is within the budget of the run.
Call == frames < MaxCalls /\ frames' = frames + 1

\* The frames the pumps receive: from an address that is learned already
\* or from a new one, to an address of the table, to one that is not in it,
\* to all.
LockFrames ==
  {msg \in Frames :
     Routed(msg) /\ MACIsUnicast(GetSrcMAC(msg))
       /\ (GetSrcMAC(msg) = 4 => GetDestMAC(msg) = 2)}

\* The lookup and the fan-out that follow setMACFrom for the frame in hand.
Route(s, dst) ==
  IF MACIsUnicast(dst) THEN Pos("mrlock", s, {}, "run")
  ELSE Pos("arlock", s, {}, "run")

\* The transport-read pump of s reads a binary message of 14 bytes or more:
\* setMACFrom returns at once, or comes to macLock.Lock().
LxFrame(s, msg) ==
  /\ task[s]["ws"].pc = "run" /\ Routed(msg)
  /\ Call
  /\ log' = [log EXCEPT ![s].src = msg.src, ![s].dst = msg.dst]
  /\ task' = [task EXCEPT ![s]["ws"] =
       IF Learns(s, GetSrcMAC(msg)) THEN Pos("mlock", s, {}, "run")
       ELSE Route(s, GetDestMAC(msg))]
  /\ UNCHANGED <<subnet, held, lastCommandId, presented, wire, timer, key, assigned, hist, sock, macTable, allSockets, faults>>

\* macLock.Lock() returns in setMACFrom.
LxLearnLock(s) ==
  /\ task[s]["ws"].pc = "mlock"
  /\ CanLock("macLock")
  /\ held' = [held EXCEPT !["macLock"] = Locked(@, <<s, "ws">>)]
  /\ task' = [task EXCEPT ![s]["ws"].pc = "min"]
  /\ UNCHANGED <<subnet, lastCommandId, presented, wire, timer, key, assigned, hist, sock, macTable, allSockets, log, frames, faults>>

\* setMACFrom with macLock held, and the deferred Unlock.
LxLearn(s) ==
  LET srcMac == GetSrcMAC(log[s]) IN
  /\ task[s]["ws"].pc = "min"
  /\ macTable' = setMACFrom(s, srcMac)
  /\ sock' = [sock EXCEPT ![s].mac = srcMac]
  /\ presented' = [presented EXCEPT ![srcMac] = s]
  /\ held' = [held EXCEPT !["macLock"] = Unlock(@, <<s, "ws">>)]
  /\ task' = [task EXCEPT ![s]["ws"] = Route(s, GetDestMAC(log[s]))]
  /\ UNCHANGED <<subnet, lastCommandId, wire, timer, key, assigned, hist, allSockets, log, frames, faults>>

\* macLock.RLock() returns in FindSocketByMAC.
LxFindLock(s) ==
  /\ task[s]["ws"].pc = "mrlock"
  /\ CanRLock("macLock")
  /\ held' = [held EXCEPT !["macLock"] = RLocked(@, <<s, "ws">>)]
  /\ task' = [task EXCEPT ![s]["ws"].pc = "mrin"]
  /\ UNCHANGED <<subnet, lastCommandId, presented, wire, timer, key, assigned, hist, sock, macTable, allSockets, log, frames, faults>>

\* FindSocketByMAC reads the entry, and the deferred RUnlock. The pump
\* calls WriteMessage on the Socket found; if there is none the frame goes
\* to s.iface.
LxFind(s) ==
  LET sd == FindSocketByMAC(GetDestMAC(log[s])) IN
  /\ task[s]["ws"].pc = "mrin"
  /\ held' = [held EXCEPT !["macLock"] = Unlock(@, <<s, "ws">>)]
  /\ task' = [task EXCEPT ![s]["ws"] =
       IF sd # NoSock THEN Pos("wlock", sd, {}, "run") ELSE InLoop]
  /\ UNCHANGED <<subnet, lastCommandId, presented, wire, timer, key, assigned, hist, sock, macTable, allSockets, log, frames, faults>>

\* allSocketsLock.RLock() returns in BroadcastMessage or BroadcastCommand.
LxListLock(s, k) ==
  /\ task[s][k].pc = "arlock"
  /\ CanRLock("allSocketsLock")
  /\ held' = [held EXCEPT !["allSocketsLock"] = RLocked(@, <<s, k>>)]
  /\ task' = [task EXCEPT ![s][k].pc = "arin"]
  /\ UNCHANGED <<subnet, lastCommandId, presented, wire, timer, key, assigned, hist, sock, macTable, allSockets, log, frames, faults>>

\* The targetList is built (BroadcastMessage leaves out the Socket it is
\* told to skip), and allSocketsLock.RUnlock(). The writes follow.
LxList(s, k) ==
  LET p == task[s][k] IN
  /\ p.pc = "arin"
  /\ held' = [held EXCEPT !["allSocketsLock"] = Unlock(@, <<s, k>>)]
  /\ \E q \in After(s, Pos("arin", NoSock, allSockets \ {p.cur}, p.ret)) :
       task' = [task EXCEPT ![s][k] = q]
  /\ UNCHANGED <<subnet, lastCommandId, presented, wire, timer, key, assigned, hist, sock, macTable, allSockets, log, frames, faults>>

\* The tunnel-read pump has a packet, or the keepalive a ping, and calls
\* s.WriteMessage.
LxSend(s, k) ==
  /\ k \in {"tun", "ka"} /\ task[s][k].pc = "run"
  /\ Call
  /\ task' = [task EXCEPT ![s][k] = Pos("wlock", s, {}, "run")]
  /\ UNCHANGED <<subnet, held, lastCommandId, presented, wire, timer, key, assigned, hist, sock, macTable, allSockets, log, faults>>

\* s.writeLock.Lock() returns in WriteMessage.
LxWriteLock(s, k) ==
  LET d == task[s][k].cur IN
  /\ task[s][k].pc = "wlock"
  /\ Free(sock[d])
  /\ sock' = [sock EXCEPT ![d].writeLock = <<s, k>>]
  /\ task' = [task EXCEPT ![s][k].pc = "write"]
  /\ UNCHANGED <<subnet, held, lastCommandId, presented, wire, timer, key, assigned, hist, macTable, allSockets, log, frames, faults>>

\* s.conn.WriteMessage returns, with an error if the transport is closed
\* and with or without one if it is open (a spontaneous failure, of which
\* there are MaxFaults at most), and s.writeLock.Unlock(). After an error
\* Close follows, and the pumps of the tunnel and the keepalive return
\* after it.
LxWritten(s, k, err) ==
  LET p == task[s][k]
      d == p.cur
  IN
  /\ p.pc = "write"
  /\ sock[d].conn # "open" => err
  /\ faults' = IF err /\ sock[d].conn = "open" THEN faults + 1 ELSE faults
  /\ faults' <= MaxFaults
  /\ sock' = [sock EXCEPT ![d].writeLock = <<>>]
  /\ IF err
     THEN task' = [task EXCEPT ![s][k] =
            Pos("clock", d, p.tgt,
                IF k \in {"tun", "ka"} THEN "exit" ELSE p.ret)]
     ELSE \E q \in After(s, p) : task' = [task EXCEPT ![s][k] = q]
  /\ UNCHANGED <<subnet, held, lastCommandId, presented, wire, timer, key, assigned, hist, macTable, allSockets, log, frames>>

\* A pump leaves its loop: a failed read, a ping timeout, closechan closed.
LxExit(s, k) ==
  /\ k \in Pumps /\ task[s][k].pc = "run"
  /\ Call
  /\ task' = [task EXCEPT ![s][k] = Pos("done", s, {}, "run")]
  /\ UNCHANGED <<subnet, held, lastCommandId, presented, wire, timer, key, assigned, hist, sock, macTable, allSockets, log, faults>>

\* closeDone: s.wg.Done(), and s.Close() is called.
LxDone(s, k) ==
  /\ task[s][k].pc = "done"
  /\ sock' = [sock EXCEPT ![s].wg = @ - 1]
  /\ task' = [task EXCEPT ![s][k] = Pos("clock", s, {}, "reap")]
  /\ UNCHANGED <<subnet, held, lastCommandId, presented, wire, timer, key, assigned, hist, macTable, allSockets, log, frames, faults>>

\* s.writeLock.Lock() returns in Close. With the mutex held the transport
\* and the interface are closed, closechan is closed if it is open, and
\* s.mac is read: macLock is taken only if an address was learned.
LxCloseLock(s, k) ==
  LET d == task[s][k].cur
      so == sock[d]
  IN
  /\ task[s][k].pc = "clock"
  /\ Free(so)
  /\ sock' = [sock EXCEPT ![d] =
       [so EXCEPT !.writeLock = <<s, k>>,
                  !.conn = "closed",
                  !.iface = IF so.iface # "nil" THEN "closed" ELSE "nil",
                  !.closechanopen = FALSE,
                  !.closes = IF so.closechanopen THEN @ + 1 ELSE @]]
  /\ task' = [task EXCEPT ![s][k].pc =
       IF so.mac # defaultMac THEN "cmac" ELSE "call"]
  /\ UNCHANGED <<subnet, held, lastCommandId, presented, wire, timer, key, assigned, hist, macTable, allSockets, log, frames, faults>>

\* macLock.Lock() returns in Close; s.writeLock is held.
LxCloseMacLock(s, k) ==
  /\ task[s][k].pc = "cmac"
  /\ CanLock("macLock")
  /\ held' = [held EXCEPT !["macLock"] = Locked(@, <<s, k>>)]
  /\ task' = [task EXCEPT ![s][k].pc = "cmacin"]
  /\ UNCHANGED <<subnet, lastCommandId, presented, wire, timer, key, assigned, hist, sock, macTable, allSockets, log, frames, faults>>

\* Close with macLock held: delete(macTable, s.mac), s.mac = defaultMac,
\* macLock.Unlock(). allSocketsLock.Lock() is called next.
LxCloseMac(s, k) ==
  LET d == task[s][k].cur IN
  /\ task[s][k].pc = "cmacin"
  /\ macTable' = [macTable EXCEPT ![sock[d].mac] = NoSock]
  /\ sock' = [sock EXCEPT ![d].mac = defaultMac]
  /\ held' = [held EXCEPT !["macLock"] = Unlock(@, <<s, k>>)]
  /\ task' = [task EXCEPT ![s][k].pc = "call"]
  /\ UNCHANGED <<subnet, lastCommandId, presented, wire, timer, key, assigned, hist, allSockets, log, frames, faults>>

\* allSocketsLock.Lock() returns in Close; s.writeLock is held.
LxCloseSetLock(s, k) ==
  /\ task[s][k].pc = "call"
  /\ CanLock("allSocketsLock")
  /\ held' = [held EXCEPT !["allSocketsLock"] = Locked(@, <<s, k>>)]
  /\ task' = [task EXCEPT ![s][k].pc = "callin"]
  /\ UNCHANGED <<subnet, lastCommandId, presented, wire, timer, key, assigned, hist, sock, macTable, allSockets, log, frames, faults>>

\* Close with allSocketsLock held: delete(allSockets, s),
\* allSocketsLock.Unlock(), and the deferred s.writeLock.Unlock().
LxClosed(s, k) ==
  LET p == task[s][k]
      d == p.cur
  IN
  /\ p.pc = "callin"
  /\ allSockets' = allSockets \ {d}
  /\ held' = [held EXCEPT !["allSocketsLock"] = Unlock(@, <<s, k>>)]
  /\ sock' = [sock EXCEPT ![d].writeLock = <<>>]
  /\ \E q \in After(s, p) : task' = [task EXCEPT ![s][k] = q]
  /\ UNCHANGED <<subnet, lastCommandId, presented, wire, timer, key, assigned, hist, macTable, log, frames, faults>>

\* assignedMutex.Lock() returns in the reaper.
LxReapLock(s, k) ==
  /\ task[s][k].pc = "rlock"
  /\ CanLock("assignedMutex")
  /\ held' = [held EXCEPT !["assignedMutex"] = Locked(@, <<s, k>>)]
  /\ task' = [task EXCEPT ![s][k].pc = "rin"]
  /\ UNCHANGED <<subnet, lastCommandId, presented, wire, timer, key, assigned, hist, sock, macTable, allSockets, log, frames, faults>>

\* The reaper with assignedMutex held: the record is released, and
\* assignedMutex.Unlock(). refreshPeers is called next.
LxReap(s, k) ==
  /\ task[s][k].pc = "rin"
  /\ assigned' = release(assigned, sock[s].clientIP)
  /\ sock' = [sock EXCEPT ![s].reaps = @ + 1]
  /\ held' = [held EXCEPT !["assignedMutex"] = Unlock(@, <<s, k>>)]
  /\ task' = [task EXCEPT ![s][k] = Pos("plock", s, {}, "set")]
  /\ UNCHANGED <<subnet, lastCommandId, presented, wire, timer, key, hist, macTable, allSockets, log, frames, faults>>

\* closeDone after the reaper returned: s.reaped = true.
LxSetReaped(s, k) ==
  /\ task[s][k].pc = "set"
  /\ sock' = [sock EXCEPT ![s].reaped = TRUE]
  /\ task' = [task EXCEPT ![s][k] = Returned]
  /\ UNCHANGED <<subnet, held, lastCommandId, presented, wire, timer, key, assigned, hist, macTable, allSockets, log, frames, faults>>

\* The transport-read pump of s reads the command "refresh-peers": its
\* handler calls refreshPeers, and the reply is written after it.
LxCommand(s) ==
  /\ task[s]["ws"].pc = "run" /\ "refresh-peers" \in sock[s].handlers
  /\ Call
  /\ task' = [task EXCEPT ![s]["ws"] = Pos("plock", s, {}, "reply")]
  /\ UNCHANGED <<subnet, held, lastCommandId, presented, wire, timer, key, assigned, hist, sock, macTable, allSockets, log, faults>>

\* assignedMutex.Lock() returns in refreshPeers.
LxPeersLock(s, k) ==
  /\ task[s][k].pc = "plock"
  /\ CanLock("assignedMutex")
  /\ held' = [held EXCEPT !["assignedMutex"] = Locked(@, <<s, k>>)]
  /\ task' = [task EXCEPT ![s][k].pc = "pin"]
  /\ UNCHANGED <<subnet, lastCommandId, presented, wire, timer, key, assigned, hist, sock, macTable, allSockets, log, frames, faults>>

\* refreshPeers with assignedMutex held: the list of the connected clients
\* is built, and assignedMutex.Unlock(). BroadcastCommand is called next.
LxPeers(s, k) ==
  /\ task[s][k].pc = "pin"
  /\ held' = [held EXCEPT !["assignedMutex"] = Unlock(@, <<s, k>>)]
  /\ task' = [task EXCEPT ![s][k] = Pos("arlock", NoSock, {}, task[s][k].ret)]
  /\ UNCHANGED <<subnet, lastCommandId, presented, wire, timer, key, assigned, hist, sock, macTable, allSockets, log, frames, faults>>

\* The transport-read pump of s reads a command whose handler calls
\* s.SetInterface, as the handler of "init" of the client does.
LxInit(s) ==
  /\ task[s]["ws"].pc = "run"
  /\ Call
  /\ task' = [task EXCEPT ![s]["ws"] = Pos("ilock", s, {}, "reply")]
  /\ UNCHANGED <<subnet, held, lastCommandId, presented, wire, timer, key, assigned, hist, sock, macTable, allSockets, log, faults>>

\* s.writeLock.Lock() returns in SetInterface.
LxIfaceLock(s) ==
  /\ task[s]["ws"].pc = "ilock"
  /\ Free(sock[s])
  /\ sock' = [sock EXCEPT ![s].writeLock = <<s, "ws">>]
  /\ task' = [task EXCEPT ![s]["ws"].pc = "iin"]
  /\ UNCHANGED <<subnet, held, lastCommandId, presented, wire, timer, key, assigned, hist, macTable, allSockets, log, frames, faults>>

\* SetInterface with s.writeLock held: an error if the interface is set,
\* else it is set and tryServeIfaceRead starts its pump; the deferred
\* Unlock. The reply is written next.
LxIface(s) ==
  LET set == sock[s].iface = "nil" IN
  /\ task[s]["ws"].pc = "iin"
  /\ sock' = [sock EXCEPT ![s].writeLock = <<>>,
                          ![s].iface = IF set THEN "open" ELSE @,
                          ![s].wg = IF set THEN @ + 1 ELSE @]
  /\ task' = [task EXCEPT ![s]["ws"] = Pos("wlock", s, {}, "run"),
                          ![s]["tun"] = IF set THEN InLoop ELSE @]
  /\ UNCHANGED <<subnet, held, lastCommandId, presented, wire, timer, key, assigned, hist, macTable, allSockets, log, frames, faults>>

\* serveWs takes up the connection that has arrived and calls pickIP.
LxAccept(s) ==
  /\ task[s]["main"].pc = "accept"
  /\ Call
  /\ task' = [task EXCEPT ![s]["main"].pc = "klock"]
  /\ UNCHANGED <<subnet, held, lastCommandId, presented, wire, timer, key, assigned, hist, sock, macTable, allSockets, log, faults>>

\* assignedMutex.Lock() returns in pickIP.
LxPickLock(s) ==
  /\ task[s]["main"].pc = "klock"
  /\ CanLock("assignedMutex")
  /\ held' = [held EXCEPT !["assignedMutex"] = Locked(@, <<s, "main">>)]
  /\ task' = [task EXCEPT ![s]["main"].pc = "kin"]
  /\ UNCHANGED <<subnet, lastCommandId, presented, wire, timer, key, assigned, hist, sock, macTable, allSockets, log, frames, faults>>

\* pickIP with assignedMutex held, and assignedMutex.Unlock() on each of
\* its ways out. Without an address serveWs closes the connection; with
\* one it makes the Socket and sends "init" on it.
LxPick(s) ==
  LET ip == pickIPAddr(assigned, ClientName(s)) IN
  /\ task[s]["main"].pc = "kin"
  /\ assigned' = pickIP(assigned, ClientName(s), s)
  /\ held' = [held EXCEPT !["assignedMutex"] = Unlock(@, <<s, "main">>)]
  /\ IF ip = OutOfIP
     THEN /\ sock' = [sock EXCEPT ![s].conn = "closed"]
          /\ task' = [task EXCEPT ![s]["main"] = Returned]
     ELSE /\ sock' = [sock EXCEPT ![s] =
               AddCommandHandler(MakeSocket(ip, "open", TRUE), "refresh-peers")]
          /\ task' = [task EXCEPT ![s]["main"] = Pos("wlock", s, {}, "serve")]
  /\ UNCHANGED <<subnet, lastCommandId, presented, wire, timer, key, hist, macTable, allSockets, log, frames, faults>>

\* s.writeLock.Lock() returns in Serve; tryServeIfaceRead starts the
\* tunnel-read pump, and allSocketsLock.Lock() is called.
LxServeLock(s) ==
  /\ task[s]["main"].pc = "slock"
  /\ Free(sock[s])
  /\ sock' = [sock EXCEPT ![s].writeLock = <<s, "main">>,
                          ![s].wg = @ + tryServeIfaceRead(s).add]
  /\ task' = [task EXCEPT ![s]["main"].pc = "sall",
                          ![s]["tun"] =
                            IF tryServeIfaceRead(s).add = 1 THEN InLoop ELSE @]
  /\ UNCHANGED <<subnet, held, lastCommandId, presented, wire, timer, key, assigned, hist, macTable, allSockets, log, frames, faults>>

\* allSocketsLock.Lock() returns in Serve; s.writeLock is held.
LxServeSetLock(s) ==
  /\ task[s]["main"].pc = "sall"
  /\ CanLock("allSocketsLock")
  /\ held' = [held EXCEPT !["allSocketsLock"] = Locked(@, <<s, "main">>)]
  /\ task' = [task EXCEPT ![s]["main"].pc = "sallin"]
  /\ UNCHANGED <<subnet, lastCommandId, presented, wire, timer, key, assigned, hist, sock, macTable, allSockets, log, frames, faults>>

\* Serve with allSocketsLock held: allSockets[s] = s, allSocketsLock.Unlock();
\* the transport-read pump and the keepalive start, and the deferred
\* s.writeLock.Unlock(). serveWs calls Wait.
LxServe(s) ==
  /\ task[s]["main"].pc = "sallin"
  /\ allSockets' = allSockets \cup {s}
  /\ held' = [held EXCEPT !["allSocketsLock"] = Unlock(@, <<s, "main">>)]
  /\ sock' = [sock EXCEPT ![s].writeLock = <<>>, ![s].wg = @ + 2]
  /\ task' = [task EXCEPT ![s]["main"] = Pos("wait", s, {}, "run"),
                          ![s]["ws"] = InLoop,
                          ![s]["ka"] = InLoop]
  /\ UNCHANGED <<subnet, lastCommandId, presented, wire, timer, key, assigned, hist, macTable, log, frames, faults>>

NextLocks ==
  \/ \E s \in Socks, msg \in LockFrames : LxFrame(s, msg)
  \/ \E s \in Socks : LxLearnLock(s)
  \/ \E s \in Socks : LxLearn(s)
  \/ \E s \in Socks : LxFindLock(s)
  \/ \E s \in Socks : LxFind(s)
  \/ \E s \in Socks, k \in Kinds : LxListLock(s, k)
  \/ \E s \in Socks, k \in Kinds : LxList(s, k)
  \/ \E s \in Socks, k \in Kinds : LxSend(s, k)
  \/ \E s \in Socks, k \in Kinds : LxWriteLock(s, k)
  \/ \E s \in Socks, k \in Kinds, err \in BOOLEAN : LxWritten(s, k, err)
  \/ \E s \in Socks, k \in Kinds : LxExit(s, k)
  \/ \E s \in Socks, k \in Kinds : LxDone(s, k)
  \/ \E s \in Socks, k \in Kinds : LxCloseLock(s, k)
  \/ \E s \in Socks, k \in Kinds : LxCloseMacLock(s, k)
  \/ \E s \in Socks, k \in Kinds : LxCloseMac(s, k)
  \/ \E s \in Socks, k \in Kinds : LxCloseSetLock(s, k)
  \/ \E s \in Socks, k \in Kinds : LxClosed(s, k)
  \/ \E s \in Socks, k \in Kinds : LxReapLock(s, k)
  \/ \E s \in Socks, k \in Kinds : LxReap(s, k)
  \/ \E s \in Socks, k \in Kinds : LxSetReaped(s, k)
  \/ \E s \in Socks : LxCommand(s)
  \/ \E s \in Socks, k \in Kinds : LxPeersLock(s, k)
  \/ \E s \in Socks, k \in Kinds : LxPeers(s, k)
  \/ \E s \in Socks : LxInit(s)
  \/ \E s \in Socks : LxIfaceLock(s)
  \/ \E s \in Socks : LxIface(s)
  \/ \E s \in Socks : LxAccept(s)
  \/ \E s \in Socks : LxPickLock(s)
  \/ \E s \in Socks : LxPick(s)
  \/ \E s \in Socks : LxServeLock(s)
  \/ \E s \in Socks : LxServeSetLock(s)
  \/ \E s \in Socks : LxServe(s)

SpecLocks == InitLocks /\ [][NextLocks]_vars

\* ---------------------------------------------- claims on the sockets ----

\* serveWs built a Socket for connection s.
Endpoint(s) == sock[s].conn # "none" /\ sock[s].reaper

\* The goroutines of s that returned from the s.Close() of their closeDone.
PastClose(s) ==
  {k \in Pumps : task[s][k].pc \in {"chk", "reap", "peers", "set", "end"}}

\* Every goroutine Serve started for s has ended and Wait has returned.
TornDown(s) ==
  /\ Endpoint(s)
  /\ task[s]["main"].pc = "done"
  /\ \A k \in Pumps : task[s][k].pc = "end"

\* C1: for every Endpoint with a reap callback and every interleaving of the
\* exits of its background tasks, the reap callback is invoked exactly once:
\* never twice, and not zero times once the Endpoint is torn down.
C1_ReapedExactlyOnce ==
  \A s \in Socks :
    /\ sock[s].reaps <= 1
    /\ TornDown(s) => sock[s].reaps = 1

\* C2: Close is idempotent. In every reachable state and for every Endpoint,
\* however many Close calls the goroutines have issued so far, closechan has
\* been closed at most once; one more Close leaves the transport closed, the
\* interface closed, closechan closed exactly once, the learned MAC reset to
\* the broadcast value and the Endpoint out of allSockets; and a second Close
\* after it changes nothing at all.
C2_CloseIdempotent ==
  \A s \in Socks :
    /\ sock[s].closes <= 1
    /\ Endpoint(s) =>
         LET once == CloseIn(Shared, s)
             twice == CloseIn(once, s)
         IN /\ twice = once
            /\ once.sock[s].conn = "closed"
            /\ once.sock[s].iface = "closed"
            /\ ~once.sock[s].closechanopen
            /\ once.sock[s].closes = 1
            /\ once.sock[s].mac = defaultMac
            /\ s \notin once.allSockets
            /\ (sock[s].mac # defaultMac => once.macTable[sock[s].mac] = NoSock)

\* Two goroutines of an Endpoint have each returned from the Close of their
\* closeDone, closechan was closed once, and the pump has learned an address
\* after them, so that one more Close has an entry to drop.
C2_Witness ==
  \E s \in Socks :
    /\ Cardinality(PastClose(s)) >= 2
    /\ sock[s].closes = 1
    /\ sock[s].mac # defaultMac

\* C3: once a Close of an Endpoint has completed, the Endpoint has no
\* switching-table entry and is not in allSockets, so that no broadcast that
\* starts later has it among its targets; in every interleaving of Close with
\* Serve, with the learning of the transport-read pump and with broadcasts.
C3_ClosedStaysOut ==
  \A s \in Socks :
    (Endpoint(s) /\ ~sock[s].closechanopen) =>
      /\ s \notin allSockets
      /\ \A m \in Macs : macTable[m] # s

\* The pump of s is done with a routed frame (14 bytes or more).
Handled(s) == task[s]["ws"].pc = "handled" /\ log[s].len >= MinFrameLen

\* The pump of s called WriteMessage on no Socket for its frame.
NoWrites(s) == \A d \in Socks : log[s].wrote[d] = 0

\* The step is the lookup of the pump of s for a unicast destination.
RouteStep(s) ==
  /\ task[s]["ws"].pc = "route"
  /\ task'[s]["ws"].pc # "route"
  /\ MACIsUnicast(GetDestMAC(log[s]))

\* C4, in a state: while the pump forwards a frame whose unicast destination
\* the lookup found, and when it is done with it, the only transport written
\* to is the one of the Socket found, at most once (exactly once when done);
\* BroadcastMessage is not run and the own interface is not written to.
C4_State ==
  \A s \in Socks :
    (task[s]["ws"].pc \in {"fwd", "handled"} /\ log[s].sd # NoSock) =>
      /\ \A d \in Socks \ {log[s].sd} : log[s].wrote[d] = 0
      /\ log[s].wrote[log[s].sd] = IF task[s]["ws"].pc = "fwd" THEN 0 ELSE 1
      /\ task[s]["ws"].pc = "fwd" => task[s]["ws"].tgt = {log[s].sd}
      /\ ~log[s].bcast /\ log[s].snap = {}
      /\ ~log[s].local

\* C4, in a step: the Socket the frame is forwarded to is the owner of the
\* destination in the switching table at the time of the lookup.
C4_Step ==
  \A s \in Socks :
    (RouteStep(s) /\ macTable[GetDestMAC(log[s])] # NoSock) =>
      /\ task'[s]["ws"] = At("fwd", {macTable[GetDestMAC(log[s])]})
      /\ log'[s].sd = macTable[GetDestMAC(log[s])]

\* C4: a binary frame of at least 14 bytes whose destination is unicast and
\* present in the switching table is written to exactly one transport, the
\* one of the owner of the address, to no other Endpoint, and not to the
\* receiving Endpoint's own tunnel interface.
C4_UnicastToOwner == []C4_State /\ [][C4_Step]_vars

\* A pump has forwarded a frame to another Endpoint, the owner of the
\* destination.
C4_Witness ==
  \E s \in Socks :
    /\ Handled(s)
    /\ log[s].sd \notin {NoSock, s}
    /\ log[s].wrote[log[s].sd] = 1

\* C5, in a state: during the fan-out every target was written to at most
\* once, only targets were written to, and the sender is no target; when the
\* pump is done, every target was written to exactly once and the frame then
\* went to the own interface, if there is one.
C5_State ==
  \A s \in Socks :
    (task[s]["ws"].pc \in {"bcast", "handled"} /\ log[s].bcast) =>
      /\ s \notin log[s].snap
      /\ \A d \in Socks \ log[s].snap : log[s].wrote[d] = 0
      /\ \A d \in log[s].snap : log[s].wrote[d] <= 1
      /\ task[s]["ws"].pc = "bcast" =>
           /\ task[s]["ws"].tgt = {d \in log[s].snap : log[s].wrote[d] = 0}
           /\ task[s]["ws"].tgt # {}
           /\ ~log[s].local
      /\ task[s]["ws"].pc = "handled" =>
           /\ \A d \in log[s].snap : log[s].wrote[d] = 1
           /\ log[s].local = (sock[s].iface # "nil")

\* C5, in a step: the targets of the fan-out are the other Endpoints that
\* are in allSockets when the fan-out starts.
C5_Step ==
  \A s \in Socks :
    (/\ task[s]["ws"].pc = "route"
     /\ task'[s]["ws"].pc # "route"
     /\ ~MACIsUnicast(GetDestMAC(log[s])))
    => /\ log'[s].bcast
       /\ log'[s].snap = allSockets \ {s}
       /\ task'[s]["ws"].tgt = allSockets \ {s}

\* C5: a binary frame of at least 14 bytes whose destination is multicast or
\* broadcast is written exactly once to the transport of every other
\* Endpoint that is in allSockets at the time of the fan-out, never to the
\* sender's transport, and then to the sender's own tunnel interface if one
\* is bound.
C5_BroadcastFanOut == []C5_State /\ [][C5_Step]_vars

\* A pump has fanned a frame out to two other Endpoints and written it to
\* its own interface.
C5_Witness ==
  \E s \in Socks :
    /\ Handled(s)
    /\ log[s].bcast
    /\ Cardinality(log[s].snap) = 2
    /\ \A d \in log[s].snap : log[s].wrote[d] = 1
    /\ log[s].local

\* The pump of s is done with a frame whose unicast destination the lookup
\* did not find.
UnknownUnicastHandled(s) ==
  /\ Handled(s)
  /\ MACIsUnicast(GetDestMAC(log[s]))
  /\ log[s].sd = NoSock

\* C6 as the spec states it: a frame of at least 14 bytes whose unicast
\* destination has no switching-table entry is flooded like a broadcast
\* frame: BroadcastMessage runs and every other Endpoint of allSockets gets
\* the frame once.
C6_UnknownUnicastFlooded ==
  \A s \in Socks :
    UnknownUnicastHandled(s) =>
      /\ log[s].bcast
      /\ \A d \in allSockets \ {s} : log[s].wrote[d] = 1

\* C6 (amended), in a state: the pump wrote the frame to no transport, did
\* not run BroadcastMessage, and wrote it to its own interface if one is
\* bound.
C6_State ==
  \A s \in Socks :
    UnknownUnicastHandled(s) =>
      /\ NoWrites(s)
      /\ ~log[s].bcast /\ log[s].snap = {}
      /\ log[s].local = (sock[s].iface # "nil")

\* C6 (amended), in a step: a lookup that finds no owner of the destination
\* in the switching table ends the routing of the frame.
C6_Step ==
  \A s \in Socks :
    (RouteStep(s) /\ macTable[GetDestMAC(log[s])] = NoSock) =>
      /\ task'[s]["ws"] = At("handled", {})
      /\ log'[s].sd = NoSock

\* C6 (amended): a binary frame of at least 14 bytes whose destination is
\* unicast but has no switching-table entry is forwarded to no other
\* Endpoint (it is not flooded); it is only written to the receiving
\* Endpoint's own tunnel interface if one is bound.
C6_UnknownUnicastLocalOnly == []C6_State /\ [][C6_Step]_vars

\* A pump is done with a frame for an unknown unicast destination while two
\* other Endpoints are in allSockets.
C6_Witness ==
  \E s \in Socks :
    /\ UnknownUnicastHandled(s)
    /\ Cardinality(allSockets \ {s}) = 2
    /\ log[s].local

\* The reaper of s has not run: s still holds its address.
Holds(s) == Endpoint(s) /\ sock[s].reaps = 0

\* C7: two live Endpoints are never bound to the same pool address. The
\* address pickIP returned to an Endpoint stays bound to that Endpoint's
\* record until the Endpoint's own reaper releases it, and no other Endpoint
\* that still holds its address has the same one.
C7_OneAddressOneEndpoint ==
  \A s \in Socks :
    Holds(s) =>
      /\ assigned[sock[s].clientIP] = connection(ClientName(s), sock[s].clientIP, s)
      /\ \A u \in Socks \ {s} : Holds(u) => sock[u].clientIP # sock[s].clientIP

\* Connection s is taken up in this step with a key that passes.
AcceptStep(s) ==
  /\ task[s]["main"].pc = "idle"
  /\ task'[s]["main"].pc # "idle"
  /\ key'[s] = ConfigKey

\* No address is left for name: every address of the subnet is skipped or
\* assigned, and so is the fixed address of name if it has one.
NoFreeAddress(name) ==
  /\ \A a \in SubnetAddrs : HasSuffixDotZero(a) \/ assigned[a] # Nil
  /\ ConfigGet(name) # NoFixed => assigned[ConfigGet(name)] # Nil

\* There is no Socket for connection s, and no goroutine of one.
NoEndpoint(s) ==
  /\ ~sock[s].reaper /\ sock[s].wg = 0 /\ ~sock[s].closechanopen
  /\ \A k \in Pumps : task[s][k] = OffTask
  /\ task[s]["main"].pc = "done"
  /\ s \notin allSockets
  /\ \A m \in Macs : macTable[m] # s

\* C11, in a step: a join that finds no unassigned address fails with the
\* pool-exhausted error and leaves the pool, allSockets and the switching
\* table as they were; the connection is closed.
C11_Step ==
  \A s \in Socks :
    (AcceptStep(s) /\ NoFreeAddress(ClientName(s))) =>
      /\ pickIPAddr(assigned, ClientName(s)) = OutOfIP
      /\ assigned' = assigned
      /\ allSockets' = allSockets /\ macTable' = macTable
      /\ sock'[s].conn = "closed"

\* C11, in a state: a connection that was closed without a Socket never
\* has one afterwards, nor a goroutine, a place in allSockets or a
\* switching-table entry.
C11_State ==
  \A s \in Socks :
    (sock[s].conn = "closed" /\ ~sock[s].reaper) => NoEndpoint(s)

\* C11: when pickIP finds no unassigned address it fails with the
\* pool-exhausted error, the pool is left unchanged, the joining connection
\* is closed, and no Endpoint is created or added to allSockets for it.
C11_ExhaustedJoinRejected == []C11_State /\ [][C11_Step]_vars

\* A connection with the right key was closed without a failure of any
\* kind and holds no address: pickIP had none to give.
C11_Witness ==
  \E s \in Socks :
    /\ key[s] = ConfigKey
    /\ sock[s].conn = "closed" /\ ~sock[s].reaper
    /\ faults = 0
    /\ \A a \in PoolKeys : assigned[a].name # ClientName(s)
    /\ NoFreeAddress(ClientName(s))

\* C19, in a step: a connection that arrives with a key other than the
\* configured one is refused; the pool, allSockets and the switching table
\* stay as they were, and no Socket is made.
C19_Step ==
  \A s \in Socks :
    (/\ task[s]["main"].pc = "idle"
     /\ task'[s]["main"].pc # "idle"
     /\ key'[s] # ConfigKey)
    => /\ assigned' = assigned
       /\ allSockets' = allSockets /\ macTable' = macTable
       /\ sock'[s] = [NoSocket EXCEPT !.conn = "refused"]

\* C19, in a state: a connection that presented another key than the
\* configured one has no address in the pool and no Socket, and is neither
\* in allSockets nor in the switching table.
C19_State ==
  \A s \in Socks :
    key[s] \notin {"", ConfigKey} =>
      /\ sock[s] = [NoSocket EXCEPT !.conn = "refused"]
      /\ NoEndpoint(s)
      /\ \A a \in PoolKeys : assigned[a].name # ClientName(s)

\* C19: a connection that presents a key different from the configured
\* shared secret is rejected at connection establishment: no pool address is
\* allocated for it, no Endpoint is created, and it is never added to
\* allSockets or the switching table.
C19_WrongKeyRejected == []C19_State /\ [][C19_Step]_vars

\* A connection was refused for its key while the relay serves an Endpoint
\* and has an address to give.
C19_Witness ==
  \E s \in Socks :
    /\ key[s] = "guess"
    /\ sock[s].conn = "refused"
    /\ ~NoFreeAddress(ClientName(s))
    /\ allSockets # {}

\* C13: when Wait returns on an Endpoint that was served, the Endpoint is
\* fully closed: all of its background tasks have finished, its transport is
\* closed, it is not in allSockets and the switching table holds no entry
\* that maps to it.
C13_WaitMeansClosed ==
  \A s \in Socks :
    (Endpoint(s) /\ task[s]["main"].pc = "done") =>
      /\ \A k \in Pumps : task[s][k].pc = "end"
      /\ sock[s].conn = "closed"
      /\ s \notin allSockets
      /\ \A m \in Macs : macTable[m] # s

\* C20 as the spec states it: the reaper of an Endpoint has run only if the
\* WaitGroup counter of the Endpoint is zero, that is, once all of its
\* background tasks have finished.
C20_ReapedOnlyAtZero ==
  \A s \in Socks : sock[s].reaps > 0 => sock[s].wg = 0

\* The reaper of s runs in this step.
ReapStep(s) == sock'[s].reaps = sock[s].reaps + 1

\* C20 (amended), in a step: the goroutine that invokes the reaper has
\* called wg.Done and has returned from s.Close().
C20_Step ==
  \A s \in Socks :
    ReapStep(s) =>
      /\ \E k \in Pumps : task[s][k].pc = "reap" /\ task'[s][k].pc # "reap"
      /\ sock[s].wg < Cardinality(Pumps)
      /\ sock[s].conn = "closed" /\ ~sock[s].closechanopen

\* C20 (amended), in a state: a goroutine that is about to invoke the
\* reaper, and an Endpoint whose reaper has run, has a closed transport and
\* a closed closechan, and at least one of its background tasks has called
\* wg.Done.
C20_State ==
  \A s \in Socks :
    (sock[s].reaps > 0 \/ \E k \in Pumps : task[s][k].pc = "reap") =>
      /\ sock[s].conn = "closed" /\ sock[s].closes = 1
      /\ sock[s].wg < Cardinality(Pumps)

\* C20 (amended): the reap callback of an Endpoint is invoked by a
\* background task in its closeDone, after that task has decremented the
\* completion counter and after a Close of the Endpoint has completed; the
\* other background tasks may still be running, the counter need not be
\* zero.
C20_ReapAfterOwnClose == []C20_State /\ [][C20_Step]_vars

\* The reaper of an Endpoint has run while two of its background tasks
\* have not called wg.Done yet.
C20_Witness ==
  \E s \in Socks :
    /\ sock[s].reaps = 1
    /\ sock[s].wg = 2
    /\ task[s]["ws"].pc = "read"

\* C15, on the transports: of two frames of one sender on the transport of
\* one Endpoint, the one received first by the sender was written first.
C15_Wire ==
  \A d \in Socks : \A i, j \in 1 .. Len(wire[d]) :
    (i < j /\ wire[d][i].from = wire[d][j].from) =>
      wire[d][i].id < wire[d][j].id

\* C15, in the pump: a pump that waits for its next message has no write of
\* an earlier frame left to do, and a frame a pump still has to write is the
\* last one it received: every frame of the pump on a transport is older.
C15_Pump ==
  \A s \in Socks :
    /\ task[s]["ws"].pc = "read" => task[s]["ws"].tgt = {} /\ log[s] = NoLog
    /\ task[s]["ws"].pc \in {"fwd", "bcast"} =>
         \A d \in Socks : \A i \in 1 .. Len(wire[d]) :
           wire[d][i].from = s => wire[d][i].id <= log[s].id

\* C15: for every pair of Endpoints (S, D), the binary frames that the
\* transport-read pump of S forwards to D are written to D's transport in
\* the order in which S received them.
C15_ForwardedInOrder == C15_Wire /\ C15_Pump

\* One pump has forwarded two frames to one other Endpoint.
C15_Witness ==
  \E s, d \in Socks :
    /\ s # d
    /\ Len(wire[d]) = 2
    /\ wire[d][1].from = s /\ wire[d][2].from = s

\* The pump of s has a "refresh-peers" command in hand.
Refreshing(s) == log[s].cmd = "refresh-peers"

\* The allocation records that are bound.
Bound == {a \in PoolKeys : assigned[a] # Nil}

\* C18, the steps of the handler: the list has one entry, address and name,
\* for each record bound when it is built and no other entry; the targets
\* are the Sockets of allSockets when BroadcastCommand looks, the one that
\* asked among them if it is registered.
C18_Step ==
  \A s \in Socks :
    /\ (task[s]["ws"].pc = "call" /\ Refreshing(s)
          /\ task'[s]["ws"].pc # "call") =>
         /\ \A a \in Bound :
              <<assigned[a].localIP, assigned[a].name>> \in log'[s].peers
         /\ Cardinality(log'[s].peers) = Cardinality(Bound)
    /\ (task[s]["ws"].pc = "snap" /\ task'[s]["ws"].pc # "snap") =>
         /\ log'[s].snap = allSockets
         /\ task'[s]["ws"].tgt = IF allSockets = {} THEN {s} ELSE allSockets
         /\ \A d \in Socks : log'[s].wrote[d] = 0
         /\ log'[s].peers = log[s].peers

\* C18, the writes: while the commands are sent, each target written to has
\* got one and the others none; once they are sent, every target has got
\* exactly one and no other Socket has got any.
C18_State ==
  \A s \in Socks : \A d \in Socks :
    /\ task[s]["ws"].pc = "hpeers" =>
         /\ task[s]["ws"].tgt \subseteq log[s].snap
         /\ log[s].wrote[d] =
              IF d \in log[s].snap \ task[s]["ws"].tgt THEN 1 ELSE 0
    /\ (Refreshing(s) /\ task[s]["ws"].pc \in {"reply", "handled"}) =>
         log[s].wrote[d] = IF d \in log[s].snap THEN 1 ELSE 0

\* C18: each refresh-peers command received by the relay causes exactly one
\* update-peers command to be sent to every Endpoint in allSockets at the
\* time (the requester included), and its arguments hold exactly one
\* address/name entry for each allocation record bound at that moment.
C18_RefreshReachesAll == []C18_State /\ [][C18_Step]_vars

\* A refresh-peers command has been answered with an update-peers to two
\* Sockets, the one that asked among them, listing three records.
C18_Witness ==
  \E s \in Socks :
    /\ Refreshing(s) /\ task[s]["ws"].pc = "reply"
    /\ s \in log[s].snap /\ Cardinality(log[s].snap) = 2
    /\ \A d \in log[s].snap : log[s].wrote[d] = 1
    /\ Cardinality(log[s].peers) = 3

\* Socket d is closed: its transport is closed, closechan is closed, it is
\* not in allSockets and no entry of the table maps to it.
Closed(d) ==
  /\ sock[d].conn = "closed" /\ ~sock[d].closechanopen
  /\ d \notin allSockets
  /\ \A m \in Macs : macTable[m] # d

\* Closed(d) in the state after the step.
ClosedNext(d) ==
  /\ sock'[d].conn = "closed" /\ ~sock'[d].closechanopen
  /\ d \notin allSockets'
  /\ \A m \in Macs : macTable'[m] # d

\* C26, the writes: a write that fails, whoever calls it (serveWs with
\* "init", a forwarder, a handler, the reaper, a tunnel-read pump or a
\* keepalive), leaves the Socket written to closed.
C26_Write ==
  \A s \in Socks :
    /\ JoinInitErr(s) => ClosedNext(s)
    /\ \A k \in Kinds, d \in Socks : WriteErr(s, k, d) => ClosedNext(d)

\* C26, the read: a transport-read pump whose read failed goes on to Close,
\* which leaves the Socket closed.
C26_Read ==
  \A s \in Socks :
    task[s]["ws"].pc = "close" =>
      /\ task'[s]["ws"].pc \in {"close", "chk"}
      /\ task'[s]["ws"].pc = "chk" => ClosedNext(s)

\* C26, in a state: the transport of a Socket whose transport-read pump has
\* returned and is past its Close is closed, and so is its closechan.
C26_State ==
  \A s \in Socks :
    task[s]["ws"].pc \in {"chk", "reap", "peers", "set", "end"} =>
      sock[s].conn = "closed" /\ ~sock[s].closechanopen

\* C26: every transport I/O error is fatal to the Endpoint: after a failed
\* transport write, from any caller, and after a read error in the
\* transport-read pump the Endpoint is closed: transport closed, closechan
\* closed, removed from allSockets and from the switching table.
C26_TransportErrorCloses == []C26_State /\ [][C26_Write /\ C26_Read]_vars

\* A write of another Socket's pump to a Socket that had learned an address
\* failed: the Socket is closed while none of its own goroutines has
\* returned.
C26_Witness ==
  \E d \in Socks :
    /\ Closed(d) /\ faults = 1
    /\ task[d]["ws"].pc \in {"read", "handled"}
    /\ task[d]["ka"].pc = "select" /\ task[d]["tun"].pc = "tun"
    /\ task[d]["main"].pc = "wait"
    /\ \E s \in Socks \ {d} : log[s].wrote[d] = 1

\* C27, the read: a tunnel-read pump whose read failed returns, and its
\* closeDone goes on to Close, which leaves the Socket closed.
C27_Read ==
  \A s \in Socks :
    /\ TunReadErr(s) => task'[s]["tun"].pc = "close"
    /\ task[s]["tun"].pc = "close" =>
         /\ task'[s]["tun"].pc \in {"close", "chk"}
         /\ task'[s]["tun"].pc = "chk" => ClosedNext(s)

\* C27, the write: a transport-read pump whose write to the tunnel
\* interface failed returns as one whose read failed does, to go on to
\* Close.
C27_Write ==
  \A s \in Socks : IfaceWriteErr(s) => task'[s]["ws"].pc = "close"

\* C27: every tunnel-interface I/O error is fatal to the Endpoint: a read
\* error in the tunnel-read pump and a write error while an inbound frame is
\* delivered to the tunnel interface both lead to the Endpoint being closed.
C27_TunnelErrorCloses == [][C27_Read /\ C27_Write]_vars

\* ------------------------------------- claims on the switching table ----

\* Socket b is served and its transport is open.
Serving(b) == sock[b].conn = "open" /\ b \in allSockets

\* In this step the entry of address m, which maps to b, is removed while b
\* neither closes nor learns another address.
RemovedFromUnder(m, b) ==
  /\ macTable[m] = b /\ macTable'[m] = NoSock
  /\ Serving(b) /\ sock'[b].conn = "open"
  /\ sock[b].mac = m /\ sock'[b].mac = m

\* C21: removing a table entry on behalf of one Endpoint (when it closes or
\* learns another address) never removes an entry that maps to another
\* Endpoint that is still serving: after B has learned an address that A
\* had learned earlier, A closing or re-learning leaves B's entry.
C21_OnlyOwnEntryRemoved ==
  [][\A m \in Macs, b \in Socks : ~RemovedFromUnder(m, b)]_vars

\* The pump of s calls setMACFrom in this step, with a frame whose source
\* is not unicast or is the address s has learned.
SameSourceStep(s) ==
  /\ task[s]["ws"].pc = "learn" /\ task'[s]["ws"].pc # "learn"
  /\ \/ ~MACIsUnicast(GetSrcMAC(log[s]))
     \/ GetSrcMAC(log[s]) = sock[s].mac

\* C23: learning is idempotent: a frame whose source is the address the
\* Endpoint has learned, or is not unicast, leaves the switching table and
\* the learned address of every Endpoint as they are: no second entry, no
\* delete and re-insert.
C23_LearningIdempotent ==
  [][\A s \in Socks :
       SameSourceStep(s) =>
         /\ macTable' = macTable
         /\ \A u \in Socks : sock'[u].mac = sock[u].mac]_vars

\* A Socket that had learned a unicast address has seen a second frame with
\* that source; its entry is the one entry of the table.
C23_Witness ==
  \E s \in Socks :
    /\ task[s]["ws"].pc = "route" /\ log[s].id >= 2
    /\ MACIsUnicast(log[s].src) /\ log[s].was = log[s].src
    /\ sock[s].mac = log[s].src /\ macTable[log[s].src] = s
    /\ Cardinality({m \in Macs : macTable[m] # NoSock}) = 1

\* The entries of the table that map to s.
EntriesOf(s) == {m \in Macs : macTable[m] = s}

\* C24, in a state: at most one entry maps to an Endpoint, and it is the
\* entry of the address the Endpoint has learned.
C24_State ==
  \A s \in Socks :
    /\ Cardinality(EntriesOf(s)) <= 1
    /\ \A m \in EntriesOf(s) : sock[s].mac = m

\* C24, in a step: when the learned address of an Endpoint changes from one
\* address to another, the same step removes the entry of the old address
\* and inserts the entry of the new one.
C24_Step ==
  \A s \in Socks :
    (sock[s].mac # defaultMac /\ sock'[s].mac # defaultMac
       /\ sock'[s].mac # sock[s].mac) =>
      /\ macTable'[sock[s].mac] = NoSock
      /\ macTable'[sock'[s].mac] = s

\* C24: re-learning is atomic with respect to lookups: the entry of the old
\* address is removed and the entry of the new one inserted in one step
\* under the lock of the table, so in every reachable state at most one
\* entry maps to an Endpoint, and its learned address never changes while
\* the old entry still maps to it.
C24_RelearnAtomic == []C24_State /\ [][C24_Step]_vars

\* A Socket that had learned one unicast address has learned another: the
\* old entry is gone and the new one maps to it.
C24_Witness ==
  \E s \in Socks :
    /\ task[s]["ws"].pc = "route"
    /\ log[s].was # defaultMac /\ log[s].was # log[s].src
    /\ sock[s].mac = log[s].src
    /\ macTable[log[s].was] = NoSock /\ EntriesOf(s) = {log[s].src}

\* C22: in every reachable state, each address in the switching table maps
\* to the Endpoint that most recently got a frame with that address as its
\* source (last write wins per source address), also when two Endpoints
\* present the same source address in turn.
C22_LastWriteWins ==
  \A m \in Macs : macTable[m] # NoSock => macTable[m] = presented[m]

\* ------------------------------------------- claims on the client ----

\* The handler of "init" on s calls SetInterface in this step and gets its
\* result.
BindStep(s) ==
  /\ task[s]["ws"].pc = "call" /\ log[s].cmd = "init"
  /\ task'[s]["ws"].pc \in {"bind", "refresh"}

\* C12, the call: SetInterface on a Socket that has an interface returns
\* the error and changes no field of any Socket (interface, counter of the
\* WaitGroup, transport, closechan), starts no tunnel-read pump and leaves
\* the registry and the table as they are.
C12_Step ==
  \A s \in Socks :
    (BindStep(s) /\ sock[s].iface # "nil") =>
      /\ task'[s]["ws"].pc = "bind" /\ log'[s].err = "already"
      /\ sock' = sock
      /\ \A k \in Kinds \ {"ws"} : task'[s][k] = task[s][k]
      /\ allSockets' = allSockets /\ macTable' = macTable

\* C12, at most once: no step sets the interface of a Socket that has one;
\* it stays the one it is, open or closed.
C12_Once ==
  \A s \in Socks :
    sock[s].iface # "nil" =>
      /\ sock'[s].iface \in {sock[s].iface, "closed"}
      /\ (task'[s]["tun"] # task[s]["tun"] => task[s]["tun"].pc # "off")

\* C12: SetInterface on an Endpoint that already has a tunnel interface
\* returns the already-bound error and changes nothing: the interface stays,
\* no new tunnel-read pump is started, the completion counter is unchanged
\* and the Endpoint is not torn down; the interface is set at most once.
C12_RebindRefused == [][C12_Step /\ C12_Once]_vars

\* SetInterface has returned its error on a Socket whose interface is open
\* and whose tunnel-read pump runs.
C12_Witness ==
  \E s \in Socks :
    /\ task[s]["ws"].pc = "bind" /\ log[s].err = "already"
    /\ sock[s].iface = "open" /\ task[s]["tun"].pc = "tun"

\* The pump of s has a command in hand whose handler has not returned.
InHandler(s) ==
  task[s]["ws"].pc \in {"call", "snap", "hpeers", "bind", "refresh"}

\* C16, the replies: none while the handler runs and while the reply is
\* to be written; once the pump is done with the command exactly one, with
\* the commandID of the command, that says "true" if a handler is
\* registered for the name and returned nil and "false" if not.
C16_State ==
  \A s \in Socks :
    /\ (InHandler(s) \/ task[s]["ws"].pc = "reply") => log[s].reply = <<>>
    /\ (task[s]["ws"].pc = "handled" /\ log[s].cmd \in Commands) =>
         /\ Len(log[s].reply) = 1
         /\ log[s].reply[1].cid = log[s].cid
         /\ log[s].reply[1].name = "reply"
         /\ log[s].reply[1].arg =
              IF log[s].cmd \in sock[s].handlers /\ log[s].err = "nil"
              THEN "true" ELSE "false"
         /\ log[s].cmd \notin sock[s].handlers => log[s].err # "nil"

\* C16, the pump: the reply is written to the transport of the Socket
\* itself, and the pump then goes on to its next read.
C16_Step ==
  \A s \in Socks :
    /\ task[s]["ws"].pc = "reply" =>
         /\ task[s]["ws"].tgt = {s}
         /\ task'[s]["ws"].pc \in {"reply", "handled"}
    /\ (task[s]["ws"].pc = "handled" /\ log[s].cmd \in Commands) =>
         task'[s]["ws"].pc \in {"handled", "read"}

\* C16: for every received text message with at least two fields whose name
\* is not "reply", the Endpoint sends exactly one reply on the same
\* transport with the same commandID, "true" if and only if a handler is
\* registered for the name and returned no error, "false" when the name is
\* unknown or the handler failed; the Endpoint keeps serving afterwards.
\* (A handler that ends the process does not return.)
C16_OneReply == []C16_State /\ [][C16_Step]_vars

\* The handler of "update-peers" failed and the one reply is written.
C16_Witness ==
  \E s \in Socks :
    /\ task[s]["ws"].pc = "handled"
    /\ log[s].cmd = "update-peers" /\ log[s].err = "failed"
    /\ Len(log[s].reply) = 1 /\ log[s].reply[1].arg = "false"

\* ------------------------------------------- claims on text messages ----

\* The reply that says "false" to the command the pump of s has in hand.
SaysFalse(s) == <<[cid |-> log[s].cid, name |-> "reply", arg |-> "false"]>>

\* C28, in a state: a message of fewer than two fields draws no reply; a
\* command without a handler is found unknown, and once the pump is done with
\* it the one reply says "false" with the commandID of the command.
C28_State ==
  \A s \in Socks :
    /\ log[s].err = "invalid" =>
         task[s]["ws"].pc = "handled" /\ log[s].reply = <<>>
    /\ (log[s].cmd \in Commands /\ log[s].cmd \notin sock[s].handlers) =>
         /\ log[s].err = "unknown"
         /\ task[s]["ws"].pc \in {"reply", "handled"}
         /\ task[s]["ws"].pc = "reply" => log[s].reply = <<>>
         /\ task[s]["ws"].pc = "handled" => log[s].reply = SaysFalse(s)

\* C28, in a step: the read of such a message closes nothing, and the pump
\* that is done with it goes on to its next read.
C28_Step ==
  \A s \in Socks :
    /\ (task[s]["ws"].pc = "read" /\ log'[s].err \in {"invalid", "unknown"}) =>
         UNCHANGED <<sock, allSockets, macTable>>
    /\ (task[s]["ws"].pc = "handled" /\ log[s].err \in {"invalid", "unknown"}
          /\ task'[s]["ws"] # task[s]["ws"]) =>
         task'[s]["ws"].pc = "read"

\* C28, as the code has it: a protocol-format error is not fatal. A text
\* message of at least two fields that names an unknown command is answered
\* with one reply of success=false that carries its commandID; one of fewer
\* than two fields is logged and draws no reply. In both cases the Endpoint
\* continues serving.
C28_FormatErrorNotFatal == []C28_State /\ [][C28_Step]_vars

\* C28, as claimed: for a malformed text message as well as for one naming
\* an unknown command the Endpoint has sent a reply with success=false when
\* it is done with the message.
C28_FormatErrorReplied ==
  \A s \in Socks :
    (task[s]["ws"].pc = "handled" /\ log[s].err \in {"invalid", "unknown"}) =>
      Len(log[s].reply) = 1 /\ log[s].reply[1].arg = "false"

\* One pump is done with a message of fewer than two fields and another
\* with a command it has no handler for; both Sockets are open.
C28_Witness ==
  \E s \in Socks, u \in Socks :
    /\ task[s]["ws"].pc = "handled" /\ log[s].err = "invalid"
    /\ task[u]["ws"].pc = "handled" /\ log[u].err = "unknown"
    /\ log[u].reply = SaysFalse(u)
    /\ sock[s].conn = "open" /\ sock[u].conn = "open"

\* C29, in a state: the pump that has a "reply" in hand is done with it; it
\* is in no handler, has written no reply and has written nothing else.
C29_State ==
  \A s \in Socks :
    log[s].cmd = "reply" =>
      /\ task[s]["ws"].pc = "handled"
      /\ log[s].reply = <<>>
      /\ \A d \in Socks : log[s].wrote[d] = 0

\* C29, in a step: the read of a "reply" and the next step of the pump after
\* it put nothing on a transport, and the pump goes on to its next read.
C29_Step ==
  \A s \in Socks :
    /\ (task[s]["ws"].pc = "read" /\ log'[s].cmd = "reply") =>
         UNCHANGED <<wire, sock>>
    /\ (log[s].cmd = "reply" /\ task'[s]["ws"] # task[s]["ws"]) =>
         task'[s]["ws"].pc = "read" /\ UNCHANGED <<wire, sock>>

\* C29: a received text message whose command name is "reply" invokes no
\* handler, even if a handler named "reply" is registered, and causes no
\* message to be sent in response.
C29_ReplyNotAnswered == []C29_State /\ [][C29_Step]_vars

\* A Socket with a handler registered for "reply" has read a "reply".
C29_Witness ==
  \E s \in Socks :
    /\ "reply" \in sock[s].handlers
    /\ log[s].cmd = "reply" /\ task[s]["ws"].pc = "handled"

\* The commands on the transports: the Socket and the place in the order of
\* writing of every message that is not a reply.
Commanded ==
  {p \in Socks \X (1 .. 3 * (NSock + MaxRefresh)) :
     p[2] <= Len(wire[p[1]]) /\ wire[p[1]][p[2]].name # "reply"}

\* The goroutines inside SendCommand with a commandID in hand.
InSend == {s \in Socks : log[s].to # NoSock}

\* The commandIDs SendCommand has handed out, each as often as it was.
Allocated ==
  LET onWire == [p \in Commanded |-> wire[p[1]][p[2]].cid]
      inHand == [s \in InSend |-> log[s].commandId]
  IN [ids |-> {onWire[p] : p \in Commanded} \cup {inHand[s] : s \in InSend},
      calls |-> Cardinality(Commanded) + Cardinality(InSend)]

\* C30, in a state: no two calls of SendCommand have the same commandID, and
\* none has one above the counter.
C30_State ==
  /\ Cardinality(Allocated.ids) = Allocated.calls
  /\ \A i \in Allocated.ids : 1 <= i /\ i <= lastCommandId

\* C30, in a step: the commandID a call of SendCommand obtains is greater
\* than every one handed out before; the reply carries the commandID of the
\* message it answers and takes none from the counter.
C30_Step ==
  /\ \A s \in Socks :
       (log[s].to = NoSock /\ log'[s].to # NoSock) =>
         \A i \in Allocated.ids : log'[s].commandId > i
  /\ \A s \in Socks :
       (task[s]["ws"].pc = "reply" /\ task'[s]["ws"].pc = "read") =>
         /\ wire'[s] = Append(wire[s], [cid |-> log[s].cid, name |-> "reply",
                                         from |-> s])
         /\ lastCommandId' = lastCommandId

\* C30: commandIDs are unique in the process and strictly increasing: over
\* all Endpoints and all concurrent callers every SendCommand, each
\* per-target send of a BroadcastCommand included, obtains a commandID that
\* differs from and is greater than every one allocated before it, while a
\* reply reuses the commandID of the request it answers.
C30_CommandIDsIncrease == []C30_State /\ [][C30_Step]_vars

\* Two goroutines are inside SendCommand at once, one of them in a
\* BroadcastCommand that has sent to one Socket already, and a reply has
\* been written.
C30_Witness ==
  \E s \in Socks, u \in Socks :
    /\ s # u /\ {s, u} \subseteq InSend
    /\ log[s].command = "update-peers"
    /\ Cardinality(task[s]["ws"].tgt) + 2 <= Cardinality(log[s].snap)
    /\ \E d \in Socks : \E i \in 1 .. Len(wire[d]) : wire[d][i].name = "reply"

\* ---------------------------------------------- claims on the teardown ----

\* C35: once all goroutines Serve started for an Endpoint have finished and
\* the Close of their closeDone has run, the Endpoint is neither in
\* allSockets nor in the switching table, whatever the interleaving of Close
\* with Serve (a Close before Serve registered the Endpoint included) and
\* with a setMACFrom that ran after an earlier Close.
C35_CleanAfterTeardown ==
  \A s \in Socks :
    PastClose(s) = Pumps =>
      s \notin allSockets /\ \A m \in Macs : macTable[m] # s

\* All goroutines of a Socket that had learned an address are past their
\* Close: its entry was removed.
C35_Witness ==
  \E s \in Socks, m \in Macs :
    /\ PastClose(s) = Pumps
    /\ presented[m] = s

\* Serve was called for s, Wait has not returned, and s was closed.
ClosedServing(s) == task[s]["main"].pc = "wait" /\ sock[s].conn = "closed"

\* Every goroutine Serve started for s has run to its end, and Wait has
\* returned.
AllFinished(s) ==
  /\ \A k \in Pumps : task[s][k].pc = "end"
  /\ task[s]["main"].pc = "done"

\* C31: once a serving Endpoint has been closed by any trigger, then under
\* fair scheduling, reads on a closed transport or interface returning an
\* error, all of its goroutines eventually finish, the keepalive included,
\* and a pending Wait eventually returns.
C31_ClosedFinishes == \A s \in Socks : ClosedServing(s) ~> AllFinished(s)

\* A Socket was closed by a write of another Socket's pump while all its
\* own goroutines were waiting, and they have all finished since.
C31_Witness ==
  \E s \in Socks :
    /\ AllFinished(s) /\ sock[s].reaper
    /\ \E u \in Socks \ {s} : log[u].wrote[s] = 1 /\ sock[u].conn = "open"

\* The connection of a served Socket has ended: its transport is closed, or
\* one of its goroutines has left its loop and is in closeDone.
Terminated(s) ==
  /\ task[s]["main"].pc = "wait"
  /\ sock[s].conn = "closed" \/ \E k \in Pumps : task[s][k].pc = "close"

\* The record of the address s joined with holds no connection.
Unbound(s) == assigned[sock[s].clientIP] = Nil

\* C33: for every Endpoint that joined with a pool address and was served,
\* after its connection terminates the record of that address eventually
\* becomes unassigned again, under fair scheduling.
C33_AddressComesBack == \A s \in Stations : Terminated(s) ~> Unbound(s)

\* The reaper of a served Socket has run once and the record of its address
\* is unassigned, while the other Socket still holds its own.
C33_Witness ==
  \E s \in Stations, u \in Stations :
    /\ s # u
    /\ sock[s].reaps = 1 /\ Unbound(s)
    /\ sock[u].conn = "open" /\ ~Unbound(u)

\* ------------------------------------------------ claims on the joins ----

\* The addresses bound by the join of connection s.
BoundFor(s) ==
  {a \in DOMAIN assigned :
     assigned[a] # Nil /\ assigned[a] = connection(ClientName(s), a, s)}

\* C39: a pool address bound for a joining connection is released again
\* whenever the join fails before the Endpoint starts serving: a connection
\* whose serveWs has returned without a Socket holds no address.
C39_FailedJoinReleases ==
  \A s \in Socks :
    (task[s]["main"].pc = "done" /\ ~Endpoint(s)) => BoundFor(s) = {}

\* serveWs has not yet called Serve for connection s: it is before pickIP,
\* or it has made the Socket and sent "init" on it.
BeforeServe(s) == task[s]["main"].pc \in {"idle", "serve"}

\* C40, in a state: before Serve no other goroutine can reach the Socket. It
\* is not in allSockets and not in the switching table, none of its own
\* goroutines runs, no goroutine has it among the targets of its writes, and
\* nothing was forwarded to its transport.
C40_State ==
  \A s \in Socks :
    BeforeServe(s) =>
      /\ s \notin allSockets
      /\ \A m \in Macs : macTable[m] # s
      /\ \A k \in Pumps : task[s][k] = OffTask
      /\ \A u \in Socks, k \in Kinds : s \notin task[u][k].tgt
      /\ \A u \in Socks : log[u].wrote[s] = 0
      /\ wire[s] = <<>>

\* C40, in a step: a goroutine that writes to the transport of d, or fails
\* to, does so after Serve was called for d, hence after "init".
C40_Step ==
  \A s \in Socks, k \in Pumps, d \in Socks :
    (WriteOK(s, k, d) \/ WriteErr(s, k, d)) => ~BeforeServe(d)

\* C40: on the relay "init" is the first message written to the transport
\* of a joining Endpoint: no forwarded frame, broadcast, "update-peers" or
\* ping is written to it before, because the Endpoint is added to allSockets
\* and its goroutines are started only by Serve, after "init" was sent.
C40_InitFirst == []C40_State /\ [][C40_Step]_vars

\* serveWs has sent "init" on a new Socket and not yet called Serve, while
\* the pump of another Socket is in the middle of BroadcastCommand.
C40_Witness ==
  \E s \in Socks, u \in Socks :
    /\ task[s]["main"].pc = "serve" /\ sock[s].conn = "open"
    /\ task[u]["ws"].pc = "hpeers" /\ task[u]["ws"].tgt # {}

\* ----------------------------------------------- claims on the frames ----

\* The pump of s has a binary frame shorter than 14 bytes in hand.
ShortInHand(s) == 0 < log[s].len /\ log[s].len < MinFrameLen

\* C34, in a state: the pump with a short frame in hand is done with the
\* routing: no lookup found a Socket, no BroadcastMessage ran, nothing was
\* written to a transport, and s.iface.Write is called exactly if s.iface is
\* not nil.
C34_State ==
  \A s \in Socks :
    ShortInHand(s) =>
      /\ task[s]["ws"].pc = "handled"
      /\ log[s].sd = NoSock /\ ~log[s].bcast /\ log[s].snap = {}
      /\ \A d \in Socks : log[s].wrote[d] = 0
      /\ log[s].local = (sock[s].iface # "nil")

\* C34, in a step: the read of a short frame and the step of the pump that
\* follows it leave the switching table, the learned addresses and every
\* transport as they were.
C34_Step ==
  \A s \in Socks :
    ((task[s]["ws"].pc = "read" /\ 0 < log'[s].len /\ log'[s].len < MinFrameLen)
       \/ (ShortInHand(s) /\ task'[s]["ws"] # task[s]["ws"])) =>
      /\ UNCHANGED <<macTable, presented, wire, sock>>
      /\ task'[s]["ws"].pc \in {"handled", "read"}

\* C34: a binary frame shorter than 14 bytes bypasses routing entirely: no
\* MAC learning, no table lookup, no forwarding to any other Endpoint; it is
\* written only to the receiving Endpoint's own tunnel interface if one is
\* bound, and the switching table is unchanged.
C34_ShortFrameBypasses == []C34_State /\ [][C34_Step]_vars

\* A short frame is in hand while the table has an entry of another Socket
\* for the address its first bytes would give as destination.
C34_Witness ==
  \E s \in Socks :
    /\ ShortInHand(s) /\ log[s].local
    /\ macTable[log[s].dst] \notin {NoSock, s}

\* C37: a binary frame received from the transport of an Endpoint is never
\* written back to the transport of that same Endpoint, whatever its
\* destination, a unicast destination the Endpoint itself has learned
\* included: no pump calls WriteMessage on its own Socket with the frame in
\* hand, and no transport carries a frame its own pump forwarded.
C37_NeverWrittenBack ==
  \A s \in Socks :
    /\ log[s].len > 0 => log[s].wrote[s] = 0
    /\ \A i \in 1 .. Len(wire[s]) : wire[s][i].from # s

\* In this step the write of the frame the pump of s forwards or fans out
\* to the transport of d fails.
ForwardFails(s, d) ==
  /\ task[s]["ws"].pc \in {"fwd", "bcast"}
  /\ WriteErr(s, "ws", d)

\* C38, in a step: the failed write closes d and no other Socket, the Socket
\* of the pump is as open as it was, and the pump goes on to the targets
\* that are left.
C38_Step ==
  \A s \in Socks, d \in Socks :
    ForwardFails(s, d) =>
      /\ ClosedNext(d)
      /\ \A u \in Socks \ {d} : sock'[u] = sock[u]
      /\ sock'[s].conn = sock[s].conn
      /\ sock'[s].closechanopen = sock[s].closechanopen
      /\ allSockets' = allSockets \ {d}
      /\ task'[s]["ws"].tgt = task[s]["ws"].tgt \ {d}
      /\ task'[s]["ws"].pc = IF task'[s]["ws"].tgt # {} THEN "bcast" ELSE "handled"

\* C38: a write failure while a frame is forwarded or broadcast to a
\* destination Endpoint closes only that destination: the source Endpoint
\* whose pump performed the forward is not closed by it, and in a fan-out
\* the remaining targets are still written to.
C38_OnlyDestinationClosed == [][C38_Step]_vars

\* ------------------------------------------------ claims on the locks ----

\* The goroutines goroutine g waits for: it is inside a call of Lock or
\* RLock, and they hold the mutex; a call of RLock waits for a pending call
\* of Lock, too.
WaitsFor(g) ==
  LET p == task[g[1]][g[2]] IN
  IF p.pc \in WriteLockCalls
  THEN IF Free(sock[p.cur]) THEN {} ELSE {sock[p.cur].writeLock}
  ELSE UNION {IF p.pc \in LockCalls[l] THEN Holders(l)
              ELSE IF p.pc \in RLockCalls[l]
              THEN {<<h[1], h[2]>> : h \in {x \in held[l] : x[3] = "w"}}
                     \cup Pending(l)
              ELSE {} : l \in Mutexes}

\* The goroutines of G that wait for a goroutine of G, and so on: what is
\* left when no goroutine can be taken away is empty, or every goroutine in
\* it waits for one in it, and some of them wait on each other in a cycle.
RECURSIVE Knot(_)
Knot(G) ==
  LET H == {g \in G : WaitsFor(g) \cap G # {}} IN
  IF H = G THEN G ELSE Knot(H)

\* C36: the system is free of lock deadlock: in no reachable state do
\* goroutines wait on each other in a cycle over the per-Socket writeLock,
\* macLock, allSocketsLock and assignedMutex.
C36_NoLockCycle == Knot(Goroutines) = {}

\* A goroutine holds the writeLock of a Socket and waits, in Close or in
\* Serve, for macLock or allSocketsLock, which another goroutine holds.
C36_Witness ==
  \E g \in Goroutines :
    /\ task[g[1]][g[2]].pc \in {"cmac", "call", "sall"}
    /\ sock[task[g[1]][g[2]].cur].writeLock = g
    /\ WaitsFor(g) # {}

\* ------------------------------------------- the pool specification ----

\* A connection named name joins: serveWs calls pickIP. The remote address
\* of the connection is modelled by the position of the join in the history.
PoolAllocate(name) ==
  /\ Len(hist) < MaxOps
  /\ assigned' = pickIP(assigned, name, Len(hist) + 1)
  /\ hist' = Append(hist, [op |-> "alloc", name |-> name,
                           ip |-> pickIPAddr(assigned, name)])
  /\ UNCHANGED <<subnet, sockVars>>

\* The addresses pickIP has handed out so far: those a reaper can run for.
HandedOut == {hist[i].ip : i \in {j \in 1..Len(hist) : hist[j].op = "alloc"}}
               \ {OutOfIP}

\* The reaper of a connection that was given address x runs. It may run a
\* second time for the same connection (see closeDone), so x need not be
\* bound any more.
PoolRelease(x) ==
  /\ Len(hist) < MaxOps
  /\ x \in HandedOut
  /\ assigned' = release(assigned, x)
  /\ hist' = Append(hist, [op |-> "release", name |-> "", ip |-> x])
  /\ UNCHANGED <<subnet, sockVars>>

NextPool ==
  \/ \E name \in Names : PoolAllocate(name)
  \/ \E x \in PoolKeys : PoolRelease(x)

SpecPool == Init /\ [][NextPool]_vars

\* The pool of a wider subnet, 10.0.0.0/23, after many joins: the addresses
\* up to 10.0.0.253 are bound, and so may be 10.0.0.254, 10.0.0.255 and
\* 10.0.1.1; the rest is unassigned. Execute gives no record to an address
\* that ends in ".0", so p.assigned has nil for it.
Subnet23 == 0 .. 511
LastBound == 253
Window == {LastBound + 1, LastBound + 2, LastBound + 4}

InitWide ==
  /\ subnet = Subnet23
  /\ \E bound \in SUBSET Window :
       assigned = [a \in Subnet23 |->
         IF HasSuffixDotZero(a) THEN Nil
         ELSE IF a = serverIP THEN connection("vpn-server", a, a)
         ELSE IF a <= LastBound \/ a \in bound THEN connection("dave", a, a)
         ELSE Nil]
  /\ hist = <<>>
  /\ sock = [s \in Socks |-> NoSocket]
  /\ task = [s \in Socks |->
               [k \in Kinds |-> IF k = "main" THEN At("idle", {}) ELSE OffTask]]
  /\ macTable = [m \in Macs |-> NoSock]
  /\ allSockets = {}
  /\ log = [s \in Socks |-> NoLog]
  /\ frames = 0
  /\ faults = 0
  /\ key = [s \in Socks |-> ""]
  /\ wire = [s \in Socks |-> <<>>]
  /\ timer = NoTimer
  /\ presented = [m \in Macs |-> NoSock]
  /\ lastCommandId = 0
  /\ held = NoneHeld

\* The joining connections are named "alice", who has a fixed address, and
\* "bob", who has none.
NextWide ==
  \/ \E name \in {"alice", "bob"} : PoolAllocate(name)
  \/ \E x \in Subnet23 : PoolRelease(x)

SpecWide == InitWide /\ [][NextWide]_vars

\* ------------------------------------------------- claims on the pool ----

IsAlloc(i) == i <= Len(hist) /\ hist[i].op = "alloc"
IsRelease(i) == i <= Len(hist) /\ hist[i].op = "release"
Succeeded(i) == IsAlloc(i) /\ hist[i].ip # OutOfIP
Failed(i) == IsAlloc(i) /\ hist[i].ip = OutOfIP

\* C8 as the spec states it: with the /30 subnet, the first three allocations
\* for three distinct names all succeed with pairwise distinct addresses, a
\* fourth fails, and after a release of a bound address exactly one more
\* allocation succeeds.
C8_ThreeNamesFit ==
  (/\ subnet = Subnet30
   /\ IsAlloc(1) /\ IsAlloc(2) /\ IsAlloc(3)
   /\ Cardinality({hist[1].name, hist[2].name, hist[3].name}) = 3)
  => /\ Succeeded(1) /\ Succeeded(2) /\ Succeeded(3)
     /\ Cardinality({hist[1].ip, hist[2].ip, hist[3].ip}) = 3
     /\ (IsAlloc(4) => Failed(4))
     /\ (IsAlloc(4) /\ IsRelease(5) /\ IsAlloc(6) => Succeeded(6))

\* C8 (amended): with the /30 subnet the server itself holds 10.0.0.1, so the
\* first two allocations for two distinct names succeed with two distinct
\* addresses (10.0.0.2 and 10.0.0.3), a third allocation fails with the
\* pool-exhausted error, and after the release of one bound address exactly
\* one further allocation succeeds (it gets the released address) and the
\* next one fails again.
C8_TwoNamesFit ==
  (/\ subnet = Subnet30
   /\ IsAlloc(1) /\ IsAlloc(2) /\ hist[1].name # hist[2].name)
  => /\ Succeeded(1) /\ Succeeded(2)
     /\ {hist[1].ip, hist[2].ip} = {2, 3}
     /\ (IsAlloc(3) => Failed(3))
     /\ (IsAlloc(3) /\ IsRelease(4) /\ IsAlloc(5) =>
           /\ Succeeded(5)
           /\ hist[5].ip = hist[4].ip
           /\ (IsAlloc(6) => Failed(6)))

\* C8's scenario ran to its end: two joins, a failed third, a release, one
\* more join and a failed join after it.
C8_Witness ==
  /\ subnet = Subnet30
  /\ Len(hist) = 6
  /\ Succeeded(1) /\ Succeeded(2) /\ hist[1].name # hist[2].name
  /\ Failed(3) /\ IsRelease(4) /\ Succeeded(5) /\ Failed(6)

\* C9 as the spec states it: the first join under a name with a fixed mapping
\* is bound to exactly the configured address.
C9_FirstJoinGetsFixed ==
  \A i \in 1..Len(hist) :
    (/\ IsAlloc(i)
     /\ ConfigGet(hist[i].name) # NoFixed
     /\ \A j \in 1..(i - 1) : ~(IsAlloc(j) /\ hist[j].name = hist[i].name))
    => hist[i].ip = ConfigGet(hist[i].name)

\* The step is a pickIP call, whose entry is the last of the new history.
AllocStep == Len(hist') = Len(hist) + 1 /\ hist'[Len(hist')].op = "alloc"

\* C9 (amended): a join under a name with a fixed mapping is bound to exactly
\* the configured address if that address is unassigned at the time of the
\* join (otherwise the join falls back to the scan); and no join, under any
\* name, is bound to an address that is bound: while "alice" holds 10.0.0.2
\* its record is not replaced.
C9_FixedHonouredWhenFree ==
  [][AllocStep =>
       LET e == hist'[Len(hist')]
           fixed == ConfigGet(e.name)
       IN /\ (fixed # NoFixed /\ assigned[fixed] = Nil) =>
                (e.ip = fixed /\ assigned'[fixed].name = e.name)
          /\ \A a \in PoolKeys : assigned[a] # Nil => assigned'[a] = assigned[a]
          /\ e.ip # OutOfIP => assigned[e.ip] = Nil]_vars

\* "alice" joined and holds her fixed address, and a connection under another
\* name joined after her while she held it.
C9_Witness ==
  \E i, j \in 1..Len(hist) :
    /\ i < j
    /\ IsAlloc(i) /\ hist[i].name = "alice" /\ hist[i].ip = AliceIP
    /\ Succeeded(j) /\ hist[j].name # "alice"
    /\ \A k \in i..j : ~IsRelease(k)
    /\ assigned[AliceIP].name = "alice"

\* The step is a run of the reaper's release, for the address x.
ReleaseStep(x) ==
  /\ Len(hist') = Len(hist) + 1
  /\ hist'[Len(hist')].op = "release"
  /\ hist'[Len(hist')].ip = x

\* C10: release is idempotent. A release of x leaves x unassigned and every
\* other record as it was; a release of an unassigned address leaves the whole
\* pool unchanged; and releasing x once more after a release changes nothing.
C10_ReleaseIdempotent ==
  [][\A x \in PoolKeys :
       ReleaseStep(x) =>
         /\ assigned'[x] = Nil
         /\ \A a \in PoolKeys \ {x} : assigned'[a] = assigned[a]
         /\ (assigned[x] = Nil => assigned' = assigned)
         /\ release(assigned', x) = assigned']_vars

\* An address was allocated, released and released a second time.
C10_Witness ==
  \E i \in 1..Len(hist) :
    /\ Succeeded(i)
    /\ IsRelease(i + 1) /\ hist[i + 1].ip = hist[i].ip
    /\ IsRelease(i + 2) /\ hist[i + 2].ip = hist[i].ip

\* The network's first address: the one the scan starts from.
NetworkFirst == CHOOSE a \in SubnetAddrs : \A b \in SubnetAddrs : a <= b

\* The unassigned addresses of the subnet but the network's first, before
\* the step.
Unassigned == {a \in SubnetAddrs : assigned[a] = Nil} \ {NetworkFirst}

\* No fixed mapping applies to name: none is configured, or the fixed
\* address is bound.
NoFixedApplies(name) ==
  ConfigGet(name) = NoFixed \/ assigned[ConfigGet(name)] # Nil

\* C32: when no fixed mapping applies, pickIP binds and returns the first
\* unassigned address of the subnet in ascending address order (it fails if
\* there is none), and it never returns the network's first address nor the
\* address bound to the server itself.
C32_FirstUnassigned ==
  [][AllocStep =>
       LET e == hist'[Len(hist')] IN
       NoFixedApplies(e.name) =>
         /\ e.ip \notin {NetworkFirst, serverIP}
         /\ IF Unassigned = {} THEN e.ip = OutOfIP
            ELSE /\ e.ip \in Unassigned
                 /\ \A a \in Unassigned : e.ip <= a
                 /\ assigned'[e.ip] # Nil]_vars

====
